---------------------------- MODULE Spec2Model ----------------------------
(***************************************************************************)
(* Reminder bot: the scheduler daemon (send.py) and the next-run           *)
(* calculators (send.py, time_parser.py).                                  *)
(*                                                                         *)
(* Conventions of the translation                                          *)
(*   - a datetime is the record of its civil fields                        *)
(*     [year, month, day, hour, minute, second]; all datetimes live in the *)
(*     one configured zone (Asia/Tokyo, no DST), microseconds are dropped   *)
(*     (every comparison of the code is modelled at whole seconds);        *)
(*   - an ISO-8601 string is the tuple <<y, m, d, h, mi, s>> of the        *)
(*     numbers it spells, the empty string is <<>>, and a tuple that       *)
(*     spells no valid date is a string fromisoformat rejects;             *)
(*   - an "HH:MM" string is the tuple <<h, m>>; strptime rejects it when   *)
(*     the numbers are out of range;                                       *)
(*   - a dict is a record; a key that is absent or null is absent from     *)
(*     the record's DOMAIN (d.get(k) is None  <=>  k \notin DOMAIN d);     *)
(*   - a Python result is Some(v), None or ValueError (an exception).      *)
(***************************************************************************)
EXTENDS Integers, Sequences, FiniteSets, TLC

----------------------------------------------------------------------------
(* Python values *)

None == [none |-> TRUE]

Some(v) == [val |-> v]

ValueError == [raise |-> "ValueError"]

IsSome(r) == "val" \in DOMAIN r

IsNone(r) == "none" \in DOMAIN r

IsRaise(r) == "raise" \in DOMAIN r

Has(d, k) == k \in DOMAIN d

----------------------------------------------------------------------------
(* datetime: the proleptic Gregorian calendar of Python's datetime module *)

IsLeap(y) == (y % 4 = 0) /\ ((y % 100 # 0) \/ (y % 400 = 0))

DaysInMonth(y, m) ==
    IF m = 2 THEN (IF IsLeap(y) THEN 29 ELSE 28)
    ELSE IF m \in {4, 6, 9, 11} THEN 30 ELSE 31

DaysBeforeYear(y) ==
    LET p == y - 1 IN 365 * p + (p \div 4) - (p \div 100) + (p \div 400)

RECURSIVE DaysBeforeMonth(_, _)
DaysBeforeMonth(y, m) ==
    IF m = 1 THEN 0 ELSE DaysBeforeMonth(y, m - 1) + DaysInMonth(y, m - 1)

ValidDate(y, m, d) ==
    /\ y \in 1..9999
    /\ m \in 1..12
    /\ d \in 1..DaysInMonth(y, m)

ValidTime(h, mi, s) == h \in 0..23 /\ mi \in 0..59 /\ s \in 0..59

\* date.toordinal(): 0001-01-01 is day 1
ToOrdinal(y, m, d) == DaysBeforeYear(y) + DaysBeforeMonth(y, m) + d

\* the year that contains ordinal n
YearOfOrdinal(n) ==
    LET guess == ((n - 1) \div 366) + 1
    IN  CHOOSE y \in guess..(guess + 30) :
            DaysBeforeYear(y) < n /\ n <= DaysBeforeYear(y + 1)

\* the month of year y that contains the r-th day of the year
MonthOfYearDay(y, r) ==
    CHOOSE k \in 1..12 :
        DaysBeforeMonth(y, k) < r /\ r <= DaysBeforeMonth(y, k) + DaysInMonth(y, k)

YearDayToDate(y, m, r) == <<y, m, r - DaysBeforeMonth(y, m)>>

OrdinalInYear(n, y) ==
    YearDayToDate(y, MonthOfYearDay(y, n - DaysBeforeYear(y)), n - DaysBeforeYear(y))

\* date.fromordinal(n) as <<year, month, day>>
FromOrdinal(n) == OrdinalInYear(n, YearOfOrdinal(n))

DateTime(y, m, d, h, mi, s) ==
    [year |-> y, month |-> m, day |-> d, hour |-> h, minute |-> mi, second |-> s]

\* datetime.weekday(): Monday is 0
WeekdayOf(dt) == (ToOrdinal(dt.year, dt.month, dt.day) + 6) % 7

\* the origin of the integer time line of the model (a Monday)
EpochOrdinal == ToOrdinal(2024, 1, 1)

\* seconds from the origin; datetimes compare as their Seconds compare
Seconds(dt) ==
    (ToOrdinal(dt.year, dt.month, dt.day) - EpochOrdinal) * 86400
    + dt.hour * 3600 + dt.minute * 60 + dt.second

\* the datetime on date ymd, r seconds into the day
DateAndSecond(ymd, r) ==
    DateTime(ymd[1], ymd[2], ymd[3], r \div 3600, (r % 3600) \div 60, r % 60)

\* the datetime that lies t seconds after the origin
FromSeconds(t) == DateAndSecond(FromOrdinal(EpochOrdinal + (t \div 86400)), t % 86400)

\* dt with its date replaced by ymd
WithDate(dt, ymd) == [dt EXCEPT !.year = ymd[1], !.month = ymd[2], !.day = ymd[3]]

\* dt + timedelta(days = n)
AddDays(dt, n) == WithDate(dt, FromOrdinal(ToOrdinal(dt.year, dt.month, dt.day) + n))

\* datetime.isoformat()
Isoformat(dt) == <<dt.year, dt.month, dt.day, dt.hour, dt.minute, dt.second>>

\* datetime.fromisoformat(s): Some(datetime) or ValueError
Fromisoformat(s) ==
    IF /\ Len(s) = 6
       /\ ValidDate(s[1], s[2], s[3])
       /\ ValidTime(s[4], s[5], s[6])
    THEN Some(DateTime(s[1], s[2], s[3], s[4], s[5], s[6]))
    ELSE ValueError

\* datetime.strptime(time_str, "%H:%M").time(): Some([hour, minute]) or ValueError
Strptime(time_str) ==
    IF Len(time_str) = 2 /\ time_str[1] \in 0..23 /\ time_str[2] \in 0..59
    THEN Some([hour |-> time_str[1], minute |-> time_str[2]])
    ELSE ValueError

\* datetime.replace(year=, month=, day=, hour=, minute=, second=0):
\* Some(datetime), or ValueError when the fields spell no valid date
Replace(y, m, d, h, mi, s) ==
    IF ValidDate(y, m, d) /\ ValidTime(h, mi, s)
    THEN Some(DateTime(y, m, d, h, mi, s))
    ELSE ValueError

\* a variant that takes today's occurrence when now is exactly on it
TimeStrictlyAfter(dt, target_time) ==
    dt.hour * 3600 + dt.minute * 60 + dt.second
        > target_time.hour * 3600 + target_time.minute * 60

\* now.time() >= target_time, target_time being HH:MM:00
TimeAtOrAfter(dt, target_time) ==
    dt.hour * 3600 + dt.minute * 60 + dt.second
        >= target_time.hour * 3600 + target_time.minute * 60

\* schedule.get("type")
ScheduleType(schedule) == IF Has(schedule, "type") THEN schedule.type ELSE "null"

----------------------------------------------------------------------------
(* send.py: calculate_next_run_at *)

EXECUTION_GRACE_PERIOD == 60

\* a variant that looks for the weekday from current_run on, as the initial
\* calculation does, and so stays on current_run's own day
NextRunWeeklySameWeek(schedule, current_run) ==
    IF ~Has(schedule, "weekday") \/ ~Has(schedule, "time") THEN None
    ELSE LET target_time == Strptime(schedule.time) IN
         IF IsRaise(target_time) THEN ValueError
         ELSE LET next_run == AddDays(current_run,
                                      (schedule.weekday - WeekdayOf(current_run)) % 7) IN
              Some(Isoformat([next_run EXCEPT !.hour = target_time.val.hour,
                                              !.minute = target_time.val.minute,
                                              !.second = 0]))

\* the weekly branch
NextRunWeekly(schedule, current_run) ==
    IF ~Has(schedule, "weekday") \/ ~Has(schedule, "time") THEN None
    ELSE LET target_time == Strptime(schedule.time) IN
         IF IsRaise(target_time) THEN ValueError
         ELSE LET next_run == AddDays(current_run, 7) IN
              Some(Isoformat([next_run EXCEPT !.hour = target_time.val.hour,
                                              !.minute = target_time.val.minute,
                                              !.second = 0]))

\* "Move to next month": current_run.replace(month = month + 1), the day kept
MoveToNextMonth(current_run) ==
    IF current_run.month = 12
    THEN Replace(current_run.year + 1, 1, current_run.day,
                 current_run.hour, current_run.minute, current_run.second)
    ELSE Replace(current_run.year, current_run.month + 1, current_run.day,
                 current_run.hour, current_run.minute, current_run.second)

\* the monthly branch
NextRunMonthly(schedule, current_run) ==
    IF ~Has(schedule, "day") \/ ~Has(schedule, "time") THEN None
    ELSE LET target_time == Strptime(schedule.time) IN
         IF IsRaise(target_time) THEN ValueError
         ELSE LET moved == MoveToNextMonth(current_run) IN
              IF IsRaise(moved) THEN ValueError
              ELSE LET next_run == moved.val
                       h  == target_time.val.hour
                       mi == target_time.val.minute
                       try == Replace(next_run.year, next_run.month, schedule.day, h, mi, 0)
                       skip == IF next_run.month = 12
                               THEN Replace(next_run.year + 1, 1, schedule.day, h, mi, 0)
                               ELSE Replace(next_run.year, next_run.month + 1,
                                            schedule.day, h, mi, 0)
                       final == IF IsRaise(try) THEN skip ELSE try
                   IN  IF IsRaise(final) THEN ValueError
                       ELSE Some(Isoformat(final.val))

\* Some(ISO string), None, or ValueError
calculate_next_run_at(schedule, current_run) ==
    LET schedule_type == ScheduleType(schedule) IN
    IF schedule_type = "once" THEN None
    ELSE IF schedule_type = "weekly" THEN NextRunWeekly(schedule, current_run)
    ELSE IF schedule_type = "monthly" THEN NextRunMonthly(schedule, current_run)
    ELSE None

----------------------------------------------------------------------------
(* time_parser.py: calculate_initial_run_at *)

\* the weekly branch, now being get_current_time()
InitialRunWeekly(schedule, now) ==
    IF ~Has(schedule, "weekday") \/ ~Has(schedule, "time") THEN None
    ELSE LET target_time == Strptime(schedule.time) IN
         IF IsRaise(target_time) THEN ValueError
         ELSE LET diff == schedule.weekday - WeekdayOf(now)
                  days_ahead ==
                      IF diff < 0 THEN diff + 7
                      ELSE IF diff = 0 /\ TimeAtOrAfter(now, target_time.val) THEN 7
                      ELSE diff
                  next_run == AddDays(now, days_ahead)
              IN  Some(Isoformat([next_run EXCEPT !.hour = target_time.val.hour,
                                                  !.minute = target_time.val.minute,
                                                  !.second = 0]))

\* build_run(y, m)
build_run(schedule, target_time, y, m) ==
    Replace(y, m, schedule.day, target_time.hour, target_time.minute, 0)

\* a variant that looks at the same month again after a month without the day
RECURSIVE MonthSearchStuck(_, _, _, _, _, _)
MonthSearchStuck(schedule, target_time, now, year, month, fuel) ==
    LET m == IF month + 1 > 12 THEN 1 ELSE month + 1
        y == IF month + 1 > 12 THEN year + 1 ELSE year
    IN  IF fuel = 0 THEN [diverges |-> TRUE]
        ELSE IF schedule.day > DaysInMonth(y, m)
             THEN MonthSearchStuck(schedule, target_time, now, year, month, fuel - 1)
        ELSE LET candidate == build_run(schedule, target_time, y, m) IN
             IF IsRaise(candidate) THEN ValueError
             ELSE IF Seconds(candidate.val) > Seconds(now)
                  THEN Some(Isoformat(candidate.val))
             ELSE MonthSearchStuck(schedule, target_time, now, y, m, fuel - 1)

\* a variant that clamps the day to the last day of a shorter month
RECURSIVE MonthSearchClamping(_, _, _, _, _, _)
MonthSearchClamping(schedule, target_time, now, year, month, fuel) ==
    LET m == IF month + 1 > 12 THEN 1 ELSE month + 1
        y == IF month + 1 > 12 THEN year + 1 ELSE year
        d == IF schedule.day > DaysInMonth(y, m) THEN DaysInMonth(y, m) ELSE schedule.day
        candidate == Replace(y, m, d, target_time.hour, target_time.minute, 0)
    IN  IF fuel = 0 THEN [diverges |-> TRUE]
        ELSE IF IsRaise(candidate) THEN ValueError
        ELSE IF Seconds(candidate.val) > Seconds(now)
             THEN Some(Isoformat(candidate.val))
        ELSE MonthSearchClamping(schedule, target_time, now, y, m, fuel - 1)

\* the "while True" month search, entered with the month last looked at;
\* fuel counts the iterations still allowed (no iteration of the code is cut
\* short by it for a day in 1..31, see MonthSearchFuel)
RECURSIVE MonthSearch(_, _, _, _, _, _)
MonthSearch(schedule, target_time, now, year, month, fuel) ==
    LET m == IF month + 1 > 12 THEN 1 ELSE month + 1
        y == IF month + 1 > 12 THEN year + 1 ELSE year
    IN  IF fuel = 0 THEN [diverges |-> TRUE]
        ELSE IF schedule.day > DaysInMonth(y, m)
             THEN MonthSearch(schedule, target_time, now, y, m, fuel - 1)
        ELSE LET candidate == build_run(schedule, target_time, y, m) IN
             IF IsRaise(candidate) THEN ValueError
             ELSE IF Seconds(candidate.val) > Seconds(now)
                  THEN Some(Isoformat(candidate.val))
             ELSE MonthSearch(schedule, target_time, now, y, m, fuel - 1)

MonthSearchFuel == 50

\* the monthly branch
InitialRunMonthly(schedule, now) ==
    IF ~Has(schedule, "day") \/ ~Has(schedule, "time") THEN None
    ELSE LET target_time == Strptime(schedule.time) IN
         IF IsRaise(target_time) THEN ValueError
         ELSE LET days_in_month == DaysInMonth(now.year, now.month)
                  candidate == build_run(schedule, target_time.val, now.year, now.month)
              IN  IF schedule.day <= days_in_month /\ IsRaise(candidate) THEN ValueError
                  ELSE IF schedule.day <= days_in_month
                          /\ Seconds(candidate.val) > Seconds(now)
                       THEN Some(Isoformat(candidate.val))
                  ELSE MonthSearch(schedule, target_time.val, now,
                                   now.year, now.month, MonthSearchFuel)

\* a variant that refuses a run_at that is not in the future
InitialRunOnceFutureOnly(schedule, now) ==
    IF Has(schedule, "run_at")
       /\ IsSome(Fromisoformat(schedule.run_at))
       /\ Seconds(Fromisoformat(schedule.run_at).val) > Seconds(now)
    THEN Some(schedule.run_at) ELSE None

\* the once branch: schedule.get("run_at")
InitialRunOnce(schedule, now) ==
    IF Has(schedule, "run_at") THEN Some(schedule.run_at) ELSE None

\* Some(ISO string), None, or ValueError
calculate_initial_run_at(schedule, now) ==
    LET schedule_type == ScheduleType(schedule) IN
    IF schedule_type = "once" THEN InitialRunOnce(schedule, now)
    ELSE IF schedule_type = "weekly" THEN InitialRunWeekly(schedule, now)
    ELSE IF schedule_type = "monthly" THEN InitialRunMonthly(schedule, now)
    ELSE None

----------------------------------------------------------------------------
(* receive.py: calculate_initial_run_at, the webhook's own copy *)

\* the "except ValueError" branch: the day in the month after now's,
\* unguarded
ReceiveMonthlyFallback(schedule, target_time, now) ==
    LET next_run == IF now.month = 12
                    THEN Replace(now.year + 1, 1, schedule.day,
                                 target_time.hour, target_time.minute, 0)
                    ELSE Replace(now.year, now.month + 1, schedule.day,
                                 target_time.hour, target_time.minute, 0)
    IN  IF IsRaise(next_run) THEN ValueError ELSE Some(Isoformat(next_run.val))

\* the monthly branch: the day in now's month, moved one month on when it is
\* not after now; a ValueError of either replace goes to the except branch
ReceiveInitialRunMonthly(schedule, now) ==
    IF ~Has(schedule, "day") \/ ~Has(schedule, "time") THEN None
    ELSE LET target_time == Strptime(schedule.time) IN
         IF IsRaise(target_time) THEN ValueError
         ELSE LET next_run == Replace(now.year, now.month, schedule.day,
                                      target_time.val.hour, target_time.val.minute, 0)
                  moved == IF now.month = 12
                           THEN Replace(now.year + 1, 1, schedule.day,
                                        target_time.val.hour, target_time.val.minute, 0)
                           ELSE Replace(now.year, now.month + 1, schedule.day,
                                        target_time.val.hour, target_time.val.minute, 0)
              IN  IF IsRaise(next_run)
                  THEN ReceiveMonthlyFallback(schedule, target_time.val, now)
                  ELSE IF Seconds(next_run.val) <= Seconds(now)
                       THEN IF IsRaise(moved)
                            THEN ReceiveMonthlyFallback(schedule, target_time.val, now)
                            ELSE Some(Isoformat(moved.val))
                  ELSE Some(Isoformat(next_run.val))

\* Some(ISO string), None, or ValueError; the once and weekly branches are
\* those of time_parser.py
receive_calculate_initial_run_at(schedule, now) ==
    LET schedule_type == ScheduleType(schedule) IN
    IF schedule_type = "once" THEN InitialRunOnce(schedule, now)
    ELSE IF schedule_type = "weekly" THEN InitialRunWeekly(schedule, now)
    ELSE IF schedule_type = "monthly" THEN ReceiveInitialRunMonthly(schedule, now)
    ELSE None

----------------------------------------------------------------------------
(* helpers.py: create_reminder_object *)

\* the dict built for a new reminder; id stands for str(uuid.uuid4())
create_reminder_object(id, user_id, message, schedule, now) ==
    LET next_run_at == calculate_initial_run_at(schedule, now)
        base == [id |-> id, user_id |-> user_id, text |-> message,
                 schedule |-> schedule, created_at |-> Isoformat(now),
                 status |-> "pending"]
    IN  IF IsRaise(next_run_at) THEN ValueError
        ELSE IF IsSome(next_run_at)
             THEN Some(("next_run_at" :> next_run_at.val) @@ base)
        ELSE Some(base)

\* receive.py's own create_reminder_object: the same dict, the first run
\* computed by receive.py's calculate_initial_run_at
receive_create_reminder_object(id, user_id, message, schedule, now) ==
    LET next_run_at == receive_calculate_initial_run_at(schedule, now)
        base == [id |-> id, user_id |-> user_id, text |-> message,
                 schedule |-> schedule, created_at |-> Isoformat(now),
                 status |-> "pending"]
    IN  IF IsRaise(next_run_at) THEN ValueError
        ELSE IF IsSome(next_run_at)
             THEN Some(("next_run_at" :> next_run_at.val) @@ base)
        ELSE Some(base)

----------------------------------------------------------------------------
(* State *)

VARIABLES
    clock,           \* wall-clock time, seconds from the origin
    reminders_file,  \* contents of data/reminders.json
    archive_file,    \* contents of data/archive.json
    pc,              \* position of the scheduler inside run_scheduler_cycle
    loaded,          \* the list load_reminders_from_file returned to the cycle
    sweep,           \* the last call of process_due_reminders
    calc,            \* one evaluation of a pure function on drawn inputs
    fs,              \* data/reminders.json as bytes on disk, its flock, and the
                     \* two processes that open it
    main             \* what main and run_scheduler_cycle hold about the cycle

vars == <<clock, reminders_file, archive_file, pc, loaded, sweep, calc, fs, main>>

get_current_time == FromSeconds(clock)

NoSweep ==
    [input |-> <<>>, now |-> 0, updated |-> <<>>, completed |-> <<>>,
     calls |-> <<>>, raised |-> FALSE]

OnceSchedule(run_at) == [type |-> "once", run_at |-> run_at]

WeeklySchedule(weekday, time) == [type |-> "weekly", weekday |-> weekday, time |-> time]

MonthlySchedule(day, time) == [type |-> "monthly", day |-> day, time |-> time]

\* main before the first cycle: no exception caught, nothing loaded, no sleep
\* computed; before is the file as the cycle found it
NoMain ==
    [error |-> FALSE, load_failed |-> FALSE, before |-> <<>>,
     sleep_duration |-> None]

\* the value of fs while the file is not looked at as bytes
NoFile ==
    [disk |-> <<>>, lock |-> "LOCK_UN", saved |-> {},
     sched |-> [pc |-> "idle", data |-> <<>>, off |-> 0, seen |-> None],
     web |-> [pc |-> "idle", data |-> <<>>, written |-> 0, seen |-> None,
             added |-> 0, deleting |-> None, deletes |-> 0, deleted |-> {}]]

CalcIdle(schedule, at) ==
    [fn |-> "idle", schedule |-> schedule, at |-> at, result |-> None]

----------------------------------------------------------------------------
(* send.py: process_due_reminders *)

\* a variant that takes every reminder for a pending one
StatusOfAlwaysPending(reminder) == "pending"

\* reminder.get("status")
StatusOf(reminder) == IF Has(reminder, "status") THEN reminder.status ELSE "null"

\* reminder.get("schedule", {})
ScheduleOf(reminder) == IF Has(reminder, "schedule") THEN reminder.schedule ELSE <<>>

\* "if not next_run_at_str": the key is missing, null, or the empty string
NoNextRunAt(reminder) == ~Has(reminder, "next_run_at") \/ reminder.next_run_at = <<>>

\* a variant that appends the reminder twice
KeepTwice(acc, reminder) == [acc EXCEPT !.updated = Append(Append(@, reminder), reminder)]

\* updated_reminders.append(reminder)
Keep(acc, reminder) == [acc EXCEPT !.updated = Append(@, reminder)]

\* a variant that blanks the text of what it retires
RetireBlanked(acc, reminder) ==
    [acc EXCEPT !.completed = Append(@, [reminder EXCEPT !.status = "done",
                                                         !.text = ""])]

\* reminder["status"] = "done"; completed_reminders.append(reminder)
Retire(acc, reminder) ==
    [acc EXCEPT !.completed = Append(@, [reminder EXCEPT !.status = "done"])]

\* send_line_push_message(user_id, message) was called and returned success;
\* id is not an argument of the call, it names the reminder the call was for
Notified(acc, reminder, success) ==
    [acc EXCEPT !.calls = Append(@, [id |-> reminder.id, user_id |-> reminder.user_id,
                                     text |-> reminder.text, success |-> success])]

\* a variant with a grace period twice as long
TooOldLenient(time_diff) == time_diff > 2 * EXECUTION_GRACE_PERIOD

\* "if time_diff > EXECUTION_GRACE_PERIOD"
TooOld(time_diff) == time_diff > EXECUTION_GRACE_PERIOD

\* a variant that takes a reminder up to a week ahead of its time
IsDueWithinWeek(next_run_at, current_time) ==
    Seconds(next_run_at) <= Seconds(current_time) + 7 * 86400

\* "if next_run_at <= current_time"
IsDue(next_run_at, current_time) == Seconds(next_run_at) <= Seconds(current_time)

\* the "if success:" branch: retire a once reminder, advance a recurring one
AfterSuccess(acc, reminder, next_run_at) ==
    LET schedule == ScheduleOf(reminder) IN
    IF ScheduleType(schedule) = "once" THEN Retire(acc, reminder)
    ELSE LET next_run == calculate_next_run_at(schedule, next_run_at) IN
         IF IsRaise(next_run) THEN [acc EXCEPT !.raised = TRUE]
         ELSE IF IsSome(next_run) /\ next_run.val # <<>>
              THEN Keep(acc, [reminder EXCEPT !.next_run_at = next_run.val])
         ELSE Retire(acc, reminder)

\* a variant that gives up after one failed send
AfterFailureRetire(acc, reminder) == Retire(acc, reminder)

\* the "else:" branch of "if success:": keep for retry
AfterFailure(acc, reminder) == Keep(acc, reminder)

\* (current_time - next_run_at).total_seconds(), next_run_at being on a whole
\* second: a fraction of a second in current_time is counted as a full one,
\* which leaves every comparison with a whole number of seconds as it is
TotalSeconds(current_time, next_run_at) ==
    Seconds(current_time) - Seconds(next_run_at)
    + (IF Has(current_time, "millisecond") /\ current_time.millisecond > 0 THEN 1 ELSE 0)

\* one iteration of "for reminder in reminders"; success is what the notifier
\* answers if this iteration calls it
ProcessReminder(acc, reminder, current_time, success) ==
    IF StatusOf(reminder) # "pending" THEN Keep(acc, reminder)
    ELSE IF NoNextRunAt(reminder) THEN Keep(acc, reminder)
    ELSE LET parsed == Fromisoformat(reminder.next_run_at) IN
         IF IsRaise(parsed) THEN Keep(acc, reminder)
         ELSE LET next_run_at == parsed.val
                  time_diff == TotalSeconds(current_time, next_run_at)
              IN  IF IsDue(next_run_at, current_time)
                  THEN IF TooOld(time_diff) THEN Retire(acc, reminder)
                       ELSE IF success
                            THEN AfterSuccess(Notified(acc, reminder, TRUE),
                                              reminder, next_run_at)
                       ELSE AfterFailure(Notified(acc, reminder, FALSE), reminder)
                  ELSE Keep(acc, reminder)

\* the loop from index i on; an exception leaves the loop at once
RECURSIVE ProcessLoop(_, _, _, _, _)
ProcessLoop(acc, reminders, i, current_time, outcome) ==
    IF acc.raised \/ i > Len(reminders) THEN acc
    ELSE ProcessLoop(ProcessReminder(acc, reminders[i], current_time, outcome[i]),
                     reminders, i + 1, current_time, outcome)

\* append_to_archive: stamp archived_at and extend the archive
append_to_archive(archive, completed_reminders, current_time) ==
    archive \o [i \in 1..Len(completed_reminders) |->
                   ("archived_at" :> Isoformat(current_time)) @@ completed_reminders[i]]

\* the whole call, as the record kept in sweep
process_due_reminders(reminders, current_time, outcome) ==
    LET start == [input |-> reminders, now |-> Seconds(current_time),
                  updated |-> <<>>, completed |-> <<>>, calls |-> <<>>,
                  raised |-> FALSE]
    IN  ProcessLoop(start, reminders, 1, current_time, outcome)

----------------------------------------------------------------------------
(* send.py: get_next_reminder_time and calculate_sleep_duration *)
(* durations are in milliseconds: 30.0 s is 30000, 0.5 s is 500            *)

\* one iteration of the loop of get_next_reminder_time
EarlierOf(next_time, reminder) ==
    IF StatusOf(reminder) # "pending" THEN next_time
    ELSE IF NoNextRunAt(reminder) THEN next_time
    ELSE LET parsed == Fromisoformat(reminder.next_run_at) IN
         IF IsRaise(parsed) THEN next_time
         ELSE IF IsNone(next_time) \/ Seconds(parsed.val) < Seconds(next_time.val)
              THEN Some(parsed.val)
         ELSE next_time

RECURSIVE NextTimeLoop(_, _, _)
NextTimeLoop(next_time, reminders, i) ==
    IF i > Len(reminders) THEN next_time
    ELSE NextTimeLoop(EarlierOf(next_time, reminders[i]), reminders, i + 1)

\* None, or Some(the earliest next_run_at of the pending reminders)
get_next_reminder_time(reminders) == NextTimeLoop(None, reminders, 1)

\* (next_reminder - now).total_seconds(), in milliseconds; now is the datetime
\* now_dt plus now_ms milliseconds
TimeUntil(next_reminder, now_dt, now_ms) ==
    LET whole == Seconds(next_reminder) - Seconds(now_dt) IN
    IF whole > 86400 THEN 86400 * 1000        \* more than a day: kept in range,
    ELSE IF whole < -86400 THEN -86400 * 1000 \* the comparisons are with 0 and 30 s
    ELSE whole * 1000 - now_ms

\* a variant that sleeps exactly until the reminder, without the floor
SleepForUnbuffered(time_until_next) ==
    IF time_until_next <= 0 THEN 500
    ELSE IF time_until_next < 30000 THEN time_until_next
    ELSE 30000

\* the if / elif / else on time_until_next
SleepFor(time_until_next) ==
    IF time_until_next <= 0 THEN 500
    ELSE IF time_until_next < 30000
         THEN (IF time_until_next > 500 THEN time_until_next ELSE 500)
    ELSE 30000

calculate_sleep_duration(reminders, now_dt, now_ms) ==
    LET next_reminder == get_next_reminder_time(reminders) IN
    IF IsNone(next_reminder) THEN 30000
    ELSE SleepFor(TimeUntil(next_reminder.val, now_dt, now_ms))

----------------------------------------------------------------------------
(* send.py: run_scheduler_cycle and the sleep of main *)

\* the largest number of reminders in the file at start
MaxReminders == 2

\* the days of wall-clock time a behaviour spans
MaxElapsedDays == 11

StartTime == DateTime(2025, 1, 28, 8, 59, 0)

\* Friday 2025-01-31 09:00:00 and Tuesday 2025-01-28 09:00:00 as ISO strings
T0 == <<2025, 1, 31, 9, 0, 0>>

T28 == <<2025, 1, 28, 9, 0, 0>>

Reminder(id, schedule, next_run_at, status) ==
    [id |-> id, user_id |-> "U1", text |-> id, schedule |-> schedule,
     next_run_at |-> next_run_at, created_at |-> Isoformat(StartTime),
     status |-> status]

\* what reminders.json may hold when the daemon starts: reminders as the bot
\* creates them, and entries the sweep has to tolerate
ReminderPool ==
    { Reminder("once", OnceSchedule(T0), T0, "pending"),
      Reminder("weekly", WeeklySchedule(4, <<9, 0>>), T0, "pending"),
      create_reminder_object("weeklyToday", "U1", "weeklyToday",
                             WeeklySchedule(1, <<8, 30>>), StartTime).val,
      Reminder("monthly28", MonthlySchedule(28, <<9, 0>>), T28, "pending"),
      Reminder("monthly31", MonthlySchedule(31, <<9, 0>>), T0, "pending"),
      Reminder("done", OnceSchedule(T0), T0, "done"),
      [id |-> "noNextRun", user_id |-> "U1", text |-> "noNextRun",
       schedule |-> WeeklySchedule(4, <<9, 0>>),
       created_at |-> Isoformat(StartTime), status |-> "pending"],
      Reminder("badNextRun", OnceSchedule(T0), <<2025, 2, 30, 9, 0, 0>>, "pending"),
      Reminder("emptyNextRun", OnceSchedule(T0), <<>>, "pending"),
      Reminder("weeklyNoDay", [type |-> "weekly", time |-> <<9, 0>>], T0, "pending"),
      Reminder("unknownType", [type |-> "daily", time |-> <<9, 0>>], T0, "pending"),
      Reminder("weeklyBadTime", WeeklySchedule(4, <<25, 0>>), T0, "pending") }

\* lists of at most n pool entries with distinct ids
RECURSIVE ListsUpTo(_)
ListsUpTo(n) ==
    IF n = 0 THEN {<<>>}
    ELSE LET shorter == ListsUpTo(n - 1)
         IN  shorter \cup
             {Append(l, r) : <<l, r>> \in
                 {<<l, r>> \in shorter \X ReminderPool :
                     /\ Len(l) = n - 1
                     /\ \A i \in 1..Len(l) : l[i].id # r.id}}

Init ==
    /\ clock = Seconds(StartTime)
    /\ reminders_file \in ListsUpTo(MaxReminders)
    /\ archive_file = <<>>
    /\ pc = "idle"
    /\ loaded = <<>>
    /\ sweep = NoSweep
    /\ fs = NoFile
    /\ main = NoMain
    /\ calc = CalcIdle(OnceSchedule(T0), StartTime)

\* the instants a sleep may end at: the due time of a pending reminder of the
\* file, and 30, 60 and 61 seconds after it
WakeOffsets == {0, 30, 60, 61}

WakeTimes ==
    {Seconds(Fromisoformat(reminders_file[i].next_run_at).val) + o :
        i \in {j \in 1..Len(reminders_file) :
                  /\ StatusOf(reminders_file[j]) = "pending"
                  /\ ~NoNextRunAt(reminders_file[j])
                  /\ IsSome(Fromisoformat(reminders_file[j].next_run_at))},
        o \in WakeOffsets}

\* main after run_scheduler_cycle: load_reminders_from_file,
\* calculate_sleep_duration and time.sleep, which returns no earlier than asked
Sleep ==
    /\ pc = "ended"
    /\ \E d \in {calculate_sleep_duration(reminders_file, get_current_time, 0)} :
          /\ main' = [main EXCEPT !.sleep_duration = Some(d)]
          /\ \E t \in WakeTimes :
                /\ t > clock
                /\ IF t - clock >= 30 THEN TRUE ELSE (t - clock) * 1000 >= d
                /\ t <= Seconds(StartTime) + MaxElapsedDays * 86400
                /\ clock' = t
    /\ pc' = "idle"
    /\ UNCHANGED <<reminders_file, archive_file, loaded, sweep, calc, fs>>

\* reminders = load_reminders_from_file(), the read succeeding
LoadReminders ==
    /\ pc = "idle"
    /\ loaded' = reminders_file
    /\ pc' = "loaded"
    /\ main' = [NoMain EXCEPT !.before = reminders_file]
    /\ UNCHANGED <<clock, reminders_file, archive_file, sweep, calc, fs>>

\* updated_reminders = process_due_reminders(reminders); an exception ends the
\* cycle in the handler of run_scheduler_cycle, before anything is written.
\* archive is what load_archive_from_file returns to append_to_archive, and
\* unreadable says that it is [] because the archive could not be read
ProcessDueRemindersWith(archive, unreadable) ==
    /\ \E outcome \in [1..Len(loaded) -> BOOLEAN] :
          \E result \in {process_due_reminders(loaded, get_current_time, outcome)} :
          /\ unreadable => (~result.raised /\ result.completed # <<>>)
          /\ sweep' = result
          /\ IF result.raised
             THEN /\ pc' = "ended"
                  /\ main' = [main EXCEPT !.error = TRUE]
                  /\ UNCHANGED archive_file
             ELSE /\ pc' = "processed"
                  /\ main' = main
                  /\ archive_file' =
                        IF result.completed = <<>> THEN archive_file
                        ELSE append_to_archive(archive, result.completed,
                                               get_current_time)
    /\ loaded' = <<>>
    /\ UNCHANGED <<clock, reminders_file, calc, fs>>

ProcessDueReminders ==
    /\ pc = "loaded"
    /\ ProcessDueRemindersWith(archive_file, FALSE)

\* save_reminders_to_file(updated_reminders)
SaveReminders ==
    /\ pc = "processed"
    /\ reminders_file' = sweep.updated
    /\ pc' = "ended"
    /\ UNCHANGED <<clock, archive_file, loaded, sweep, calc, fs, main>>

Next == Sleep \/ LoadReminders \/ ProcessDueReminders \/ SaveReminders

Spec == Init /\ [][Next]_vars

----------------------------------------------------------------------------
(* The scheduler with reads and writes that fail *)

\* the largest number of reminders in the file at start when I/O may fail
IOMaxReminders == 1

\* an entry archive.json holds from an earlier run
ArchivedEarlier ==
    append_to_archive(<<>>, <<Reminder("earlier", OnceSchedule(T28), T28, "done")>>,
                      StartTime)

InitIO ==
    /\ clock = Seconds(StartTime)
    /\ reminders_file \in ListsUpTo(IOMaxReminders)
    /\ archive_file = ArchivedEarlier
    /\ pc = "idle"
    /\ loaded = <<>>
    /\ sweep = NoSweep
    /\ calc = CalcIdle(OnceSchedule(T0), StartTime)
    /\ fs = NoFile
    /\ main = NoMain

\* reminders = load_reminders_from_file(), the read failing: open or json.load
\* raises IOError or JSONDecodeError, which the function answers with []
LoadRemindersFails ==
    /\ pc = "idle"
    /\ loaded' = <<>>
    /\ pc' = "loaded"
    /\ main' = [NoMain EXCEPT !.before = reminders_file, !.load_failed = TRUE]
    /\ UNCHANGED <<clock, reminders_file, archive_file, sweep, calc, fs>>

\* process_due_reminders when load_archive_from_file cannot read the archive
\* and answers [] to append_to_archive
ProcessDueRemindersArchiveUnreadable ==
    /\ pc = "loaded"
    /\ ProcessDueRemindersWith(<<>>, TRUE)

\* save_reminders_to_file raising IOError at open: the handler of
\* run_scheduler_cycle logs it and the cycle returns
SaveRemindersFails ==
    /\ pc = "processed"
    /\ pc' = "ended"
    /\ main' = [main EXCEPT !.error = TRUE]
    /\ UNCHANGED <<clock, reminders_file, archive_file, loaded, sweep, calc, fs>>

NextIO ==
    \/ Sleep \/ LoadReminders \/ ProcessDueReminders \/ SaveReminders
    \/ LoadRemindersFails \/ ProcessDueRemindersArchiveUnreadable
    \/ SaveRemindersFails

SpecIO == InitIO /\ [][NextIO]_vars

----------------------------------------------------------------------------
(* The calculators applied to drawn inputs *)

\* first and last sampled day, counted from the origin (2024-01-01);
\* the range holds a leap February, a year end and a common February
CalcFirstDay == 50

CalcLastDay == 64

CalcSecondFirstDay == 359

CalcSecondLastDay == 427

CalcDays == (CalcFirstDay..CalcLastDay) \cup (CalcSecondFirstDay..CalcSecondLastDay)

\* sampled "HH:MM" strings of schedules
CalcTimes == {<<0, 0>>, <<9, 30>>}

\* sampled seconds of the day of the reference instant
CalcSecondsOfDay == {0, 9 * 3600 + 30 * 60 - 1, 9 * 3600 + 30 * 60,
                     9 * 3600 + 30 * 60 + 1, 86399}

CalcInstants == {d * 86400 + s : d \in CalcDays, s \in CalcSecondsOfDay}

CalcOnceRunAts == {<<2024, 2, 29, 9, 30, 0>>, <<2025, 1, 31, 23, 59, 59>>}

CalcSchedules ==
    {OnceSchedule(r) : r \in CalcOnceRunAts}
    \cup {WeeklySchedule(w, t) : w \in 0..6, t \in CalcTimes}
    \cup {MonthlySchedule(d, t) : d \in 1..31, t \in CalcTimes}

InitCalc ==
    /\ clock = 0
    /\ reminders_file = <<>>
    /\ archive_file = <<>>
    /\ pc = "idle"
    /\ loaded = <<>>
    /\ sweep = NoSweep
    /\ fs = NoFile
    /\ main = NoMain
    /\ calc \in {CalcIdle(sc, FromSeconds(t)) : sc \in CalcSchedules, t \in CalcInstants}

\* time_parser.calculate_initial_run_at(schedule) evaluated at instant calc.at
CallInitialRunAt ==
    /\ calc.fn = "idle"
    /\ calc' = [calc EXCEPT !.fn = "calculate_initial_run_at",
                            !.result = calculate_initial_run_at(calc.schedule, calc.at)]
    /\ UNCHANGED <<clock, reminders_file, archive_file, pc, loaded, sweep, fs, main>>

\* send.calculate_next_run_at(schedule, current_run) with current_run = calc.at
CallNextRunAt ==
    /\ calc.fn = "idle"
    /\ calc' = [calc EXCEPT !.fn = "calculate_next_run_at",
                            !.result = calculate_next_run_at(calc.schedule, calc.at)]
    /\ UNCHANGED <<clock, reminders_file, archive_file, pc, loaded, sweep, fs, main>>

\* helpers.create_reminder_object(user_id, message, schedule) at instant calc.at
CallCreateReminder ==
    /\ calc.fn = "idle"
    /\ calc' = [calc EXCEPT !.fn = "create_reminder_object",
                            !.result = create_reminder_object("id1", "U1", "text",
                                                              calc.schedule, calc.at)]
    /\ UNCHANGED <<clock, reminders_file, archive_file, pc, loaded, sweep, fs, main>>

\* receive.calculate_initial_run_at(schedule) evaluated at instant calc.at
CallReceiveInitialRunAt ==
    /\ calc.fn = "idle"
    /\ calc' = [calc EXCEPT !.fn = "receive.calculate_initial_run_at",
                            !.result = receive_calculate_initial_run_at(calc.schedule,
                                                                        calc.at)]
    /\ UNCHANGED <<clock, reminders_file, archive_file, pc, loaded, sweep, fs, main>>

NextCalc ==
    CallInitialRunAt \/ CallNextRunAt \/ CallCreateReminder \/ CallReceiveInitialRunAt

SpecCalc == InitCalc /\ [][NextCalc]_vars

----------------------------------------------------------------------------
(* Properties of the calculators (checked under SpecCalc) *)

\* the datetime on the day k days after dt's day at target time HH:MM:00
DayAt(dt, k, time) ==
    [AddDays(dt, k) EXCEPT !.hour = time[1], !.minute = time[2], !.second = 0]

\* the first month strictly after (y, m) that contains day, as <<year, month>>
RECURSIVE FirstLaterMonthWith(_, _, _)
FirstLaterMonthWith(day, y, m) ==
    LET m1 == IF m = 12 THEN 1 ELSE m + 1
        y1 == IF m = 12 THEN y + 1 ELSE y
    IN  IF day <= DaysInMonth(y1, m1) THEN <<y1, m1>>
        ELSE FirstLaterMonthWith(day, y1, m1)

\* C6: for a monthly schedule with day D and a previous run on day-of-month D,
\* calculate_next_run_at returns, without raising, day D at the schedule's
\* time in the first later month that contains D (January 31 -> March 31).
C6_MonthlyAdvanceSkipsShortMonths ==
    (/\ calc.fn = "calculate_next_run_at"
     /\ calc.schedule.type = "monthly"
     /\ calc.at.day = calc.schedule.day)
    => LET ym == FirstLaterMonthWith(calc.schedule.day, calc.at.year, calc.at.month)
       IN  calc.result = Some(<<ym[1], ym[2], calc.schedule.day,
                                calc.schedule.time[1], calc.schedule.time[2], 0>>)

\* C8: for Weekly{W, HH:MM} and reference instant now, calculate_initial_run_at
\* returns the smallest instant strictly after now that is on weekday W at
\* HH:MM:00; when now is exactly such an instant the result is 7 days later.
C8_WeeklyInitialIsEarliest ==
    (calc.fn = "calculate_initial_run_at" /\ calc.schedule.type = "weekly")
    => /\ IsSome(calc.result)
       /\ IsSome(Fromisoformat(calc.result.val))
       /\ LET r   == Fromisoformat(calc.result.val).val
              W   == calc.schedule.weekday
              hm  == calc.schedule.time
              now == calc.at
          IN  /\ Seconds(r) > Seconds(now)
              /\ WeekdayOf(r) = W
              /\ r.hour = hm[1] /\ r.minute = hm[2] /\ r.second = 0
              /\ \A k \in 0..7 :
                    (WeekdayOf(DayAt(now, k, hm)) = W
                     /\ Seconds(DayAt(now, k, hm)) > Seconds(now))
                    => Seconds(DayAt(now, k, hm)) >= Seconds(r)
              /\ (WeekdayOf(now) = W /\ DayAt(now, 0, hm) = now)
                    => Seconds(r) = Seconds(now) + 7 * 86400

\* the reference instant is itself an occurrence, and the answer is a week on
C8_Witness ==
    /\ calc.fn = "calculate_initial_run_at"
    /\ calc.schedule.type = "weekly"
    /\ WeekdayOf(calc.at) = calc.schedule.weekday
    /\ DayAt(calc.at, 0, calc.schedule.time) = calc.at
    /\ calc.result = Some(Isoformat(AddDays(calc.at, 7)))

\* C9: for Monthly{D, HH:MM} and reference instant now, calculate_initial_run_at
\* returns the earliest instant strictly after now whose day-of-month is D at
\* HH:MM:00; months without day D are skipped, the day is never clamped.
C9_MonthlyInitialIsEarliest ==
    (calc.fn = "calculate_initial_run_at" /\ calc.schedule.type = "monthly")
    => /\ IsSome(calc.result)
       /\ IsSome(Fromisoformat(calc.result.val))
       /\ LET r   == Fromisoformat(calc.result.val).val
              D   == calc.schedule.day
              hm  == calc.schedule.time
              now == calc.at
              gap == ToOrdinal(r.year, r.month, r.day)
                       - ToOrdinal(now.year, now.month, now.day)
          IN  /\ Seconds(r) > Seconds(now)
              /\ r.day = D
              /\ r.hour = hm[1] /\ r.minute = hm[2] /\ r.second = 0
              /\ \A k \in 0..gap :
                    (DayAt(now, k, hm).day = D
                     /\ Seconds(DayAt(now, k, hm)) > Seconds(now))
                    => Seconds(DayAt(now, k, hm)) >= Seconds(r)

\* day 30 asked for in a February: the answer is March 30, February is skipped
C9_Witness ==
    /\ calc.fn = "calculate_initial_run_at"
    /\ calc.schedule.type = "monthly"
    /\ calc.schedule.day = 30
    /\ calc.at.month = 2
    /\ IsSome(calc.result)
    /\ calc.result.val[2] = 3 /\ calc.result.val[3] = 30

\* C10: for a once schedule calculate_initial_run_at returns run_at unchanged
\* whatever the current time, a reminder created from it carries that same
\* next_run_at, and calculate_next_run_at returns null.
C10_OnceIsVerbatimAndTerminal ==
    calc.schedule.type = "once"
    => /\ calc.fn = "calculate_initial_run_at"
            => calc.result = Some(calc.schedule.run_at)
       /\ calc.fn = "create_reminder_object"
            => /\ IsSome(calc.result)
               /\ Has(calc.result.val, "next_run_at")
               /\ calc.result.val.next_run_at = calc.schedule.run_at
       /\ calc.fn = "calculate_next_run_at" => calc.result = None

\* a reminder created from a once schedule whose run_at is already past
C10_Witness ==
    /\ calc.fn = "create_reminder_object"
    /\ calc.schedule.type = "once"
    /\ Seconds(Fromisoformat(calc.schedule.run_at).val) < Seconds(calc.at)
    /\ IsSome(calc.result)
    /\ calc.result.val.next_run_at = calc.schedule.run_at

----------------------------------------------------------------------------
(* Properties of the sweep (checked under Spec) *)

Range(seq) == {seq[i] : i \in 1..Len(seq)}

\* the reminders of the last sweep's input
SweepInput == Range(sweep.input)

\* pending with a next_run_at that parses
Resolvable(r) ==
    /\ Has(r, "status") /\ r.status = "pending"
    /\ Has(r, "next_run_at") /\ r.next_run_at # <<>>
    /\ IsSome(Fromisoformat(r.next_run_at))

\* seconds by which r was overdue at the sweep's current time
Overdue(r) == sweep.now - Seconds(Fromisoformat(r.next_run_at).val)

Stale(r) == Resolvable(r) /\ Overdue(r) > 60

DueInGrace(r) == Resolvable(r) /\ Overdue(r) >= 0 /\ Overdue(r) <= 60

CallsFor(id) == Cardinality({k \in 1..Len(sweep.calls) : sweep.calls[k].id = id})

InActive(id) == \E u \in Range(sweep.updated) : u.id = id

ActiveOf(id) == CHOOSE u \in Range(sweep.updated) : u.id = id

\* r was retired by the sweep: done, handed to the archive, not active
Retired(r) ==
    /\ [r EXCEPT !.status = "done"] \in Range(sweep.completed)
    /\ \E a \in Range(archive_file) : a.id = r.id /\ a.status = "done"
    /\ ~InActive(r.id)

\* C1: a pending reminder more than 60 seconds overdue at the sweep's time is
\* retired (done, archived, not in the active list) and the notifier is never
\* called for it; a reminder exactly 60 seconds overdue is still notified.
C1_StaleRetiredWithoutNotify ==
    \A r \in SweepInput :
        /\ Stale(r) => (Retired(r) /\ CallsFor(r.id) = 0)
        /\ (Resolvable(r) /\ Overdue(r) = 60) => CallsFor(r.id) = 1

\* C2: a due reminder within the grace period whose notification failed is
\* kept in the active list exactly as it was (pending, same next_run_at, no
\* field changed or added), is not retired, and is what the next cycle loads.
C2_FailedNotifyKeepsReminder ==
    \A k \in 1..Len(sweep.calls) :
        ~sweep.calls[k].success
        => \E r \in SweepInput :
              /\ r.id = sweep.calls[k].id
              /\ DueInGrace(r)
              /\ r \in Range(sweep.updated)
              /\ \A c \in Range(sweep.completed) : c.id # r.id
              /\ pc \in {"ended", "idle", "loaded"} => r \in Range(reminders_file)

\* a failed send at the edge of the grace period, the cycle finished
C2_Witness ==
    /\ pc = "ended"
    /\ \E k \in 1..Len(sweep.calls) :
          /\ ~sweep.calls[k].success
          /\ \E r \in Range(reminders_file) :
                r.id = sweep.calls[k].id /\ r.status = "pending" /\ Overdue(r) = 60

\* C3: after a successful notification a once reminder is retired; a recurring
\* one stays pending and active with next_run_at set to the result of
\* calculate_next_run_at(schedule, old next_run_at), or is retired when that
\* result is null.
C3_SuccessRetiresOrAdvances ==
    \A r \in SweepInput :
        (\E k \in 1..Len(sweep.calls) : sweep.calls[k].id = r.id /\ sweep.calls[k].success)
        => IF ScheduleType(ScheduleOf(r)) = "once" THEN Retired(r)
           ELSE \/ /\ IsNone(calculate_next_run_at(ScheduleOf(r),
                                                   Fromisoformat(r.next_run_at).val))
                   /\ Retired(r)
                \/ /\ IsSome(calculate_next_run_at(ScheduleOf(r),
                                                   Fromisoformat(r.next_run_at).val))
                   /\ InActive(r.id)
                   /\ ActiveOf(r.id) =
                        [r EXCEPT !.next_run_at =
                            calculate_next_run_at(ScheduleOf(r),
                                                  Fromisoformat(r.next_run_at).val).val]
                   /\ \A c \in Range(sweep.completed) : c.id # r.id

\* C4: in one sweep the notifier is called at most once for a reminder that is
\* pending, due and at most 60 seconds overdue, and never for any other.
C4_AtMostOneCallPerDueReminder ==
    /\ \A r \in SweepInput :
          /\ DueInGrace(r) => CallsFor(r.id) <= 1
          /\ ~DueInGrace(r) => CallsFor(r.id) = 0
    /\ \A k \in 1..Len(sweep.calls) : \E r \in SweepInput : r.id = sweep.calls[k].id

\* one reminder notified once next to one that is stale and not notified
C4_Witness ==
    \E r, q \in SweepInput :
        /\ DueInGrace(r) /\ CallsFor(r.id) = 1
        /\ Stale(q) /\ CallsFor(q.id) = 0

\* C5: an error raised while one reminder is processed does not keep the
\* reminders after it from being processed, and what the sweep had already
\* decided (retirements, advanced next_run_at) is still persisted.
C5_ErrorDoesNotStopSweep ==
    sweep.raised
    => /\ \A i \in (Len(sweep.updated) + Len(sweep.completed) + 2)..Len(sweep.input) :
             \/ InActive(sweep.input[i].id)
             \/ \E c \in Range(sweep.completed) : c.id = sweep.input[i].id
       /\ \A c \in Range(sweep.completed) : \E a \in Range(archive_file) : a.id = c.id
       /\ pc \in {"ended", "idle"} => \A u \in Range(sweep.updated) : u \in Range(reminders_file)

\* a weekly schedule as the data model has it: a weekday and a valid HH:MM
WellFormedWeekly(schedule) ==
    /\ ScheduleType(schedule) = "weekly"
    /\ Has(schedule, "weekday") /\ schedule.weekday \in 0..6
    /\ Has(schedule, "time") /\ IsSome(Strptime(schedule.time))

\* C7: a weekly reminder notified with success at any lateness within the grace
\* period gets as next_run_at the day 7 days after its old next_run_at, at the
\* schedule's HH:MM:00.
C7_WeeklyAdvanceIsDriftFree ==
    \A r \in SweepInput :
        (/\ WellFormedWeekly(ScheduleOf(r))
         /\ \E k \in 1..Len(sweep.calls) : sweep.calls[k].id = r.id /\ sweep.calls[k].success)
        => /\ InActive(r.id)
           /\ IsSome(Fromisoformat(ActiveOf(r.id).next_run_at))
           /\ LET old == Fromisoformat(r.next_run_at).val
                  new == Fromisoformat(ActiveOf(r.id).next_run_at).val
              IN  /\ ToOrdinal(new.year, new.month, new.day)
                       = ToOrdinal(old.year, old.month, old.day) + 7
                  /\ new.hour = r.schedule.time[1]
                  /\ new.minute = r.schedule.time[2]
                  /\ new.second = 0

\* the second firing of a weekly reminder, swept 60 seconds late
C7_Witness ==
    \E r \in SweepInput :
        /\ WellFormedWeekly(ScheduleOf(r))
        /\ Resolvable(r)
        /\ r.next_run_at = <<2025, 2, 7, 9, 0, 0>>
        /\ Overdue(r) = 60
        /\ InActive(r.id)
        /\ ActiveOf(r.id).next_run_at = <<2025, 2, 14, 9, 0, 0>>

----------------------------------------------------------------------------
(* time_parser.py: parse_natural_time, pattern 0a ("N分後") *)
(* a text is the sequence of its characters                                *)

Digits == <<"0", "1", "2", "3", "4", "5", "6", "7", "8", "9">>

\* the characters 分 (U+5206) and 後 (U+5F8C)
Fun == "U+5206"

Go == "U+5F8C"

IsDigit(c) == \E i \in 1..10 : Digits[i] = c

DigitValue(c) == (CHOOSE i \in 1..10 : Digits[i] = c) - 1

\* the length of the longest prefix of text made of digits: what (\d+) takes
RECURSIVE DigitPrefixLen(_)
DigitPrefixLen(text) ==
    IF text # <<>> /\ IsDigit(Head(text)) THEN 1 + DigitPrefixLen(Tail(text)) ELSE 0

\* int(digits)
RECURSIVE IntOf(_)
IntOf(digits) ==
    IF digits = <<>> THEN 0
    ELSE 10 * IntOf(SubSeq(digits, 1, Len(digits) - 1))
         + DigitValue(digits[Len(digits)])

\* str(n) for n >= 0
RECURSIVE StrOf(_)
StrOf(n) == IF n < 10 THEN <<Digits[n + 1]>> ELSE Append(StrOf(n \div 10), Digits[(n % 10) + 1])

\* the text does not have the shape of the pattern: the next pattern is tried
NoMatch == [nomatch |-> TRUE]

\* re.match(r"(\d+)分後", text): the digits of group 1, or NoMatch
MatchMinutesLater(text) ==
    LET k == DigitPrefixLen(text) IN
    IF k >= 1 /\ Len(text) >= k + 2 /\ text[k + 1] = Fun /\ text[k + 2] = Go
    THEN Some(SubSeq(text, 1, k))
    ELSE NoMatch

\* a variant that refuses 1440 and accepts nothing below 1
MinutesInRangeExclusive(minutes) == minutes > 0 /\ minutes < 1440

\* the negation of "if minutes <= 0 or minutes > 1440"
MinutesInRange(minutes) == ~(minutes <= 0 \/ minutes > 1440)

\* now + timedelta(seconds = n)
AddSeconds(dt, n) == FromSeconds(Seconds(dt) + n)

\* target_time.strftime("%Y年%m月%d日 %H:%M")
DescribeOnce(dt) == <<dt.year, dt.month, dt.day, dt.hour, dt.minute>>

\* the (schedule, desc) pair returned for a once schedule at target_time
OnceResult(target_time) ==
    Some(<<OnceSchedule(Isoformat(target_time)), DescribeOnce(target_time)>>)

\* pattern 0a: NoMatch, None (the parse fails) or Some(<<schedule, desc>>)
RelativeMinutes(text, now) ==
    LET match == MatchMinutesLater(text) IN
    IF ~IsSome(match) THEN NoMatch
    ELSE IF ~MinutesInRange(IntOf(match.val)) THEN None
    ELSE OnceResult(AddSeconds(now, 60 * IntOf(match.val)))

----------------------------------------------------------------------------
(* The parser applied to drawn inputs *)

\* the largest N of the texts "N分後" that are parsed
ParseMaxMinutes == 1445

\* reference instants: seconds kept, a day, month, leap-day and year end
ParseInstants ==
    { DateTime(2025, 1, 1, 10, 0, 0), DateTime(2025, 5, 3, 14, 0, 37),
      DateTime(2024, 2, 28, 23, 59, 59), DateTime(2024, 12, 31, 0, 0, 1),
      DateTime(2025, 2, 28, 12, 30, 30) }

\* "N分後", and the same with a leading zero
MinutesLaterTexts(n) ==
    {StrOf(n) \o <<Fun, Go>>, <<"0">> \o StrOf(n) \o <<Fun, Go>>}

ParseIdle(n, text, at) ==
    [fn |-> "idle", n |-> n, text |-> text, at |-> at, result |-> None]

InitParse ==
    /\ clock = 0
    /\ reminders_file = <<>>
    /\ archive_file = <<>>
    /\ pc = "idle"
    /\ loaded = <<>>
    /\ sweep = NoSweep
    /\ fs = NoFile
    /\ main = NoMain
    /\ \E n \in 0..ParseMaxMinutes : \E text \in MinutesLaterTexts(n) :
          \E at \in ParseInstants : calc = ParseIdle(n, text, at)

\* parse_natural_time(text) at instant calc.at, decided by pattern 0a
CallParseRelativeMinutes ==
    /\ calc.fn = "idle"
    /\ calc' = [calc EXCEPT !.fn = "parse_natural_time",
                            !.result = RelativeMinutes(calc.text, calc.at)]
    /\ UNCHANGED <<clock, reminders_file, archive_file, pc, loaded, sweep, fs, main>>

NextParse == CallParseRelativeMinutes

SpecParse == InitParse /\ [][NextParse]_vars

\* C20: for N in 1..1440 "N分後" parsed at T gives a once schedule whose run_at
\* is exactly T + N minutes (the seconds of T kept); N = 0 and N = 1441 fail.
C20_RelativeMinutes ==
    calc.fn = "parse_natural_time"
    => /\ calc.n \in 1..1440
            => /\ IsSome(calc.result)
               /\ calc.result.val[1].type = "once"
               /\ IsSome(Fromisoformat(calc.result.val[1].run_at))
               /\ Seconds(Fromisoformat(calc.result.val[1].run_at).val)
                     = Seconds(calc.at) + 60 * calc.n
               /\ calc.result.val[1].run_at[6] = calc.at.second
       /\ calc.n \in {0, 1441} => calc.result = None

\* the largest accepted count, from an instant with seconds, over a leap day
C20_Witness ==
    /\ calc.fn = "parse_natural_time"
    /\ calc.n = 1440
    /\ calc.at = DateTime(2024, 2, 28, 23, 59, 59)
    /\ IsSome(calc.result)
    /\ calc.result.val[1].run_at = <<2024, 2, 29, 23, 59, 59>>

----------------------------------------------------------------------------
(* The sleep calculation applied to drawn inputs *)

\* the longest list of reminders handed to calculate_sleep_duration
SleepMaxReminders == 2

\* the number of quarter seconds of now that are tried
SleepQuarters == 4

\* the instant of the calls, to which the milliseconds are added
SleepNow == DateTime(2025, 1, 31, 9, 0, 0)

\* seconds from SleepNow to the next_run_at of the drawn reminders
SleepOffsets == {-61, -1, 0, 1, 2, 29, 30, 31, 86400}

SleepPool ==
    { Reminder("p", OnceSchedule(T0), Isoformat(AddSeconds(SleepNow, off)), "pending")
        : off \in SleepOffsets }
    \cup { Reminder("d", OnceSchedule(T0), Isoformat(AddSeconds(SleepNow, off)), "done")
             : off \in {-1, 1, 2} }
    \cup { Reminder("empty", OnceSchedule(T0), <<>>, "pending"),
           Reminder("bad", OnceSchedule(T0), <<2025, 2, 30, 9, 0, 0>>, "pending"),
           [id |-> "missing", user_id |-> "U1", text |-> "missing",
            schedule |-> OnceSchedule(T0), created_at |-> Isoformat(StartTime),
            status |-> "pending"],
           [id |-> "noStatus", user_id |-> "U1", text |-> "noStatus",
            schedule |-> OnceSchedule(T0), created_at |-> Isoformat(StartTime),
            next_run_at |-> Isoformat(AddSeconds(SleepNow, 1))] }

SleepLists == UNION {[1..n -> SleepPool] : n \in 0..SleepMaxReminders}

SleepIdle(reminders, ms) ==
    [fn |-> "idle", reminders |-> reminders, at |-> SleepNow, ms |-> ms,
     result |-> None]

InitSleep ==
    /\ clock = 0
    /\ reminders_file = <<>>
    /\ archive_file = <<>>
    /\ pc = "idle"
    /\ loaded = <<>>
    /\ sweep = NoSweep
    /\ fs = NoFile
    /\ main = NoMain
    /\ \E reminders \in SleepLists : \E q \in 0..(SleepQuarters - 1) :
          calc = SleepIdle(reminders, 250 * q)

CallSleepDuration ==
    /\ calc.fn = "idle"
    /\ calc' = [calc EXCEPT !.fn = "calculate_sleep_duration",
                            !.result = Some(calculate_sleep_duration(
                                                calc.reminders, calc.at, calc.ms))]
    /\ UNCHANGED <<clock, reminders_file, archive_file, pc, loaded, sweep, fs, main>>

NextSleep == CallSleepDuration

SpecSleep == InitSleep /\ [][NextSleep]_vars

\* milliseconds from the call to each pending, parseable next_run_at
SleepRemaining ==
    { (Seconds(Fromisoformat(r.next_run_at).val) - Seconds(calc.at)) * 1000 - calc.ms
        : r \in {r \in Range(calc.reminders) : Resolvable(r)} }

SleepEarliest == CHOOSE t \in SleepRemaining : \A u \in SleepRemaining : t <= u

\* C11: the sleep is 30 s when no pending reminder has a parseable next_run_at
\* or the earliest one is 30 s or more away, 0.5 s when the earliest is at or
\* before now, and max(0.5 s, remaining) otherwise; other reminders do not
\* count; the sleep is within [0.5 s, 30 s] and, when the earliest is 0.5 s to
\* 30 s away, does not end after that reminder is due.
C11_SleepDuration ==
    calc.fn = "calculate_sleep_duration"
    => /\ calc.result.val \in 500..30000
       /\ SleepRemaining = {} => calc.result.val = 30000
       /\ SleepRemaining # {}
            => /\ SleepEarliest >= 30000 => calc.result.val = 30000
               /\ SleepEarliest <= 0 => calc.result.val = 500
               /\ SleepEarliest \in 1..29999
                    => /\ calc.result.val >= SleepEarliest
                       /\ calc.result.val >= 500
                       /\ calc.result.val \in {SleepEarliest, 500}
               /\ SleepEarliest \in 500..30000 => calc.result.val <= SleepEarliest

\* a done reminder already past comes first, the pending one is a quarter of
\* a second away: the done one is not counted and the floor of 0.5 s applies
C11_Witness ==
    /\ calc.fn = "calculate_sleep_duration"
    /\ calc.ms = 750
    /\ Len(calc.reminders) = 2
    /\ calc.reminders[1].id = "d"
    /\ calc.reminders[1].next_run_at = <<2025, 1, 31, 8, 59, 59>>
    /\ Resolvable(calc.reminders[2])
    /\ calc.reminders[2].next_run_at = <<2025, 1, 31, 9, 0, 1>>
    /\ calc.result = Some(500)

----------------------------------------------------------------------------
(* send.py and storage.py reading and writing data/reminders.json *)
(* the file is the sequence of the tokens of the JSON text written to it   *)

ArrayOpen == [t |-> "["]

ArrayClose == [t |-> "]"]

Item(reminder) == [t |-> "item", v |-> reminder]

\* a byte range that was never written (the file was truncated under a writer)
Hole == [t |-> "nul"]

JSONDecodeError == [raise |-> "JSONDecodeError"]

\* the text json.dump(reminders, f) writes, token by token
json_dump(reminders) ==
    <<ArrayOpen>> \o [i \in 1..Len(reminders) |-> Item(reminders[i])] \o <<ArrayClose>>

\* json.load(f) on the whole content: Some(list) or JSONDecodeError
json_load(content) ==
    IF /\ Len(content) >= 2
       /\ content[1] = ArrayOpen
       /\ content[Len(content)] = ArrayClose
       /\ \A i \in 2..(Len(content) - 1) : content[i].t = "item"
    THEN Some([i \in 1..(Len(content) - 2) |-> content[i + 1].v])
    ELSE JSONDecodeError

\* load_reminders_from_file of either module: the list, or [] on an error
LoadResult(content) ==
    IF IsSome(json_load(content)) THEN json_load(content).val ELSE <<>>

\* a write of one token through a handle opened with "w", at the handle's offset
WriteAt(content, off, token) ==
    [i \in 1..(IF off + 1 > Len(content) THEN off + 1 ELSE Len(content)) |->
        IF i = off + 1 THEN token
        ELSE IF i <= Len(content) THEN content[i]
        ELSE Hole]

\* a write of one token through a handle opened with "a+": always at the end
WriteAppend(content, token) == Append(content, token)

\* the calls of add_reminder_to_file and delete_reminder_by_id the bot makes
FileMaxAdds == 1

\* the ids delete_reminder_by_id is called with
FileDeleteIds == {"weekly", "new1"}

\* the instant of the run: the once reminder of the file is due
FileNow == DateTime(2025, 1, 31, 9, 0, 0)

FilePool ==
    { Reminder("once", OnceSchedule(T0), T0, "pending"),
      Reminder("weekly", WeeklySchedule(4, <<9, 0>>), <<2025, 2, 7, 9, 0, 0>>, "pending") }

FileLists == UNION {{l \in [1..n -> FilePool] : \A i, j \in 1..n : l[i] = l[j] => i = j}
                       : n \in 0..2}

\* the k-th reminder created through the bot
NewReminder(k) ==
    create_reminder_object(IF k = 1 THEN "new1" ELSE "new2", "U1", "new",
                           WeeklySchedule(0, <<9, 0>>), get_current_time).val

InitFile ==
    /\ clock = Seconds(FileNow)
    /\ reminders_file = <<>>
    /\ archive_file = <<>>
    /\ pc = "idle"
    /\ loaded = <<>>
    /\ sweep = NoSweep
    /\ calc = CalcIdle(OnceSchedule(T0), StartTime)
    /\ main = NoMain
    /\ \E l \in FileLists :
          fs = [NoFile EXCEPT !.disk = json_dump(l), !.saved = {l}]

\* send.py load_reminders_from_file: open(file_path, "r"), json.load; no lock
SchedLoad ==
    /\ fs.sched.pc = "idle"
    /\ fs' = [fs EXCEPT !.sched.pc = "loaded",
                        !.sched.seen = Some(fs.disk),
                        !.sched.data = LoadResult(fs.disk)]
    /\ UNCHANGED <<clock, reminders_file, archive_file, pc, loaded, sweep, calc, main>>

\* process_due_reminders, then save_reminders_to_file up to open(file_path, "w"),
\* which truncates the file; an exception of the sweep ends the cycle
SchedOpen ==
    /\ fs.sched.pc = "loaded"
    /\ \E outcome \in [1..Len(fs.sched.data) -> BOOLEAN] :
          \E result \in {process_due_reminders(fs.sched.data, get_current_time, outcome)} :
             IF result.raised
             THEN /\ fs' = [fs EXCEPT !.sched.pc = "idle"]
                  /\ UNCHANGED archive_file
             ELSE /\ fs' = [fs EXCEPT !.sched.pc = "writing", !.sched.off = 0,
                                      !.sched.data = result.updated,
                                      !.disk = <<>>,
                                      !.saved = @ \cup {result.updated}]
                  /\ archive_file' =
                        IF result.completed = <<>> THEN archive_file
                        ELSE append_to_archive(archive_file, result.completed,
                                               get_current_time)
    /\ UNCHANGED <<clock, reminders_file, pc, loaded, sweep, calc, main>>

\* json.dump through the "w" handle, one token reaching the file
SchedWrite ==
    /\ fs.sched.pc = "writing"
    /\ fs.sched.off < Len(json_dump(fs.sched.data))
    /\ fs' = [fs EXCEPT !.disk = WriteAt(@, fs.sched.off,
                                         json_dump(fs.sched.data)[fs.sched.off + 1]),
                        !.sched.off = @ + 1]
    /\ UNCHANGED <<clock, reminders_file, archive_file, pc, loaded, sweep, calc, main>>

\* the end of the with block of save_reminders_to_file
SchedClose ==
    /\ fs.sched.pc = "writing"
    /\ fs.sched.off = Len(json_dump(fs.sched.data))
    /\ fs' = [fs EXCEPT !.sched.pc = "idle"]
    /\ UNCHANGED <<clock, reminders_file, archive_file, pc, loaded, sweep, calc, main>>

\* storage.py add_reminder_to_file: load_reminders_from_file (_read_json_file
\* under LOCK_SH, released after the read) and reminders.append(reminder)
WebLoad ==
    /\ fs.web.pc = "idle"
    /\ fs.web.added + fs.web.deletes < FileMaxAdds
    /\ fs.lock # "LOCK_EX"
    /\ fs' = [fs EXCEPT !.web.pc = "loaded",
                        !.web.seen = Some(fs.disk),
                        !.web.data = Append(LoadResult(fs.disk),
                                            NewReminder(fs.web.added + 1))]
    /\ UNCHANGED <<clock, reminders_file, archive_file, pc, loaded, sweep, calc, main>>

\* helpers.py delete_reminder_by_id: load_reminders_from_file and the filter;
\* it returns False without a save when no reminder has the id
WebDeleteLoad ==
    /\ fs.web.pc = "idle"
    /\ fs.web.added + fs.web.deletes < FileMaxAdds
    /\ fs.lock # "LOCK_EX"
    /\ \E reminder_id \in FileDeleteIds :
         \E reminders \in {LoadResult(fs.disk)} :
         \E kept \in {SelectSeq(reminders, LAMBDA r : r.id # reminder_id)} :
            fs' = IF Len(kept) < Len(reminders)
                  THEN [fs EXCEPT !.web.pc = "loaded", !.web.seen = Some(fs.disk),
                                  !.web.data = kept, !.web.deleting = Some(reminder_id)]
                  ELSE [fs EXCEPT !.web.seen = Some(fs.disk), !.web.deletes = @ + 1]
    /\ UNCHANGED <<clock, reminders_file, archive_file, pc, loaded, sweep, calc, main>>

\* _write_json_file: open(file_path, "a+"), LOCK_EX, f.seek(0), f.truncate()
WebOpen ==
    /\ fs.web.pc = "loaded"
    /\ fs.lock = "LOCK_UN"
    /\ fs' = [fs EXCEPT !.web.pc = "writing", !.lock = "LOCK_EX",
                        !.disk = <<>>, !.saved = @ \cup {fs.web.data}]
    /\ UNCHANGED <<clock, reminders_file, archive_file, pc, loaded, sweep, calc, main>>

\* json.dump through the "a+" handle, one token reaching the file
WebWrite ==
    /\ fs.web.pc = "writing"
    /\ fs.web.written < Len(json_dump(fs.web.data))
    /\ fs' = [fs EXCEPT !.disk = WriteAppend(@, json_dump(fs.web.data)[fs.web.written + 1]),
                        !.web.written = @ + 1]
    /\ UNCHANGED <<clock, reminders_file, archive_file, pc, loaded, sweep, calc, main>>

\* f.flush(), os.fsync, LOCK_UN, close; delete_reminder_by_id returns True
WebClose ==
    /\ fs.web.pc = "writing"
    /\ fs.web.written = Len(json_dump(fs.web.data))
    /\ fs' = IF fs.web.deleting = None
             THEN [fs EXCEPT !.web.pc = "idle", !.web.written = 0, !.lock = "LOCK_UN",
                             !.web.added = @ + 1]
             ELSE [fs EXCEPT !.web.pc = "idle", !.web.written = 0, !.lock = "LOCK_UN",
                             !.web.deleting = None, !.web.deletes = @ + 1,
                             !.web.deleted = @ \cup {fs.web.deleting.val}]
    /\ UNCHANGED <<clock, reminders_file, archive_file, pc, loaded, sweep, calc, main>>

NextFile ==
    \/ SchedLoad \/ SchedOpen \/ SchedWrite \/ SchedClose
    \/ WebLoad \/ WebDeleteLoad \/ WebOpen \/ WebWrite \/ WebClose

SpecFile == InitFile /\ [][NextFile]_vars

\* C15: with the scheduler and the creation process working on the file at
\* the same time, what a load reads is the complete text written by one
\* earlier save (or the initial content), never an empty or partial file.
C15_LoadSeesOneSave ==
    /\ IsSome(fs.sched.seen) => fs.sched.seen.val \in {json_dump(l) : l \in fs.saved}
    /\ IsSome(fs.web.seen) => fs.web.seen.val \in {json_dump(l) : l \in fs.saved}

\* the ids of the reminders a load of the file returns
FileIds == {r.id : r \in Range(LoadResult(fs.disk))}

\* C27: a reminder added by add_reminder_to_file, or deleted by
\* delete_reminder_by_id, while a scheduler cycle is between its load and its
\* save is not undone by that cycle: once the cycle and the bot have both
\* finished, the added reminder is in the file and the deleted one is not.
C27_CycleKeepsBotChanges ==
    (fs.sched.pc = "idle" /\ fs.web.pc = "idle")
    => /\ \A k \in 1..fs.web.added :
            NewReminder(k).id \notin fs.web.deleted => NewReminder(k).id \in FileIds
       /\ fs.web.deleted \cap FileIds = {}

\* r is in the archive, under the id it had
Archived(r) == \E a \in Range(archive_file) : a.id = r.id

\* the cycle of the last sweep is over and the next has not yet swept
CycleOver == pc \in {"ended", "idle", "loaded"}

\* C12: a pending reminder whose next_run_at is strictly after the sweep's
\* current time is in the active list the sweep returns with every field as it
\* was, is not notified and is not archived; it is what the file holds after.
C12_NotYetDueIsKept ==
    \A r \in SweepInput :
        (Resolvable(r) /\ Overdue(r) < 0)
        => /\ CallsFor(r.id) = 0
           /\ \A c \in Range(sweep.completed) : c.id # r.id
           /\ ~Archived(r)
           /\ ~sweep.raised => r \in Range(sweep.updated)
           /\ CycleOver => r \in Range(reminders_file)

\* a sweep that notified one reminder and returned, with another one not yet due
C12_Witness ==
    /\ pc = "ended"
    /\ ~sweep.raised
    /\ sweep.calls # <<>>
    /\ \E r \in SweepInput :
          /\ Resolvable(r) /\ Overdue(r) < 0
          /\ r \in Range(sweep.updated)

\* the reminder the sweep was at when the exception was raised
RaisedAt == sweep.input[Len(sweep.updated) + Len(sweep.completed) + 1]

\* C13: a reminder that is not pending, or whose next_run_at is missing,
\* empty or unparseable, is in the active list the sweep returns unchanged, in
\* every cycle, is never notified and never archived, and is never the
\* reminder at which a sweep stops.
C13_UnprocessablePassesThrough ==
    /\ \A r \in SweepInput :
          ~Resolvable(r)
          => /\ CallsFor(r.id) = 0
             /\ \A c \in Range(sweep.completed) : c.id # r.id
             /\ ~Archived(r)
             /\ ~sweep.raised => r \in Range(sweep.updated)
             /\ CycleOver => r \in Range(reminders_file)
    /\ sweep.raised => Resolvable(RaisedAt)

\* a reminder with an unparseable next_run_at comes first, the one after it is
\* notified and retired in the same sweep
C13_Witness ==
    /\ pc = "ended"
    /\ Len(sweep.input) = 2
    /\ sweep.input[1].id = "badNextRun"
    /\ sweep.updated = <<sweep.input[1]>>
    /\ Len(sweep.calls) = 1 /\ sweep.calls[1].id = sweep.input[2].id
    /\ Len(sweep.completed) = 1

Recurring(r) == ScheduleType(ScheduleOf(r)) \in {"weekly", "monthly"}

\* C17: a due weekly or monthly reminder whose notification fails keeps its
\* next_run_at and is tried again by every cycle within the grace period; the
\* first cycle more than 60 seconds after next_run_at retires it (done,
\* archived, gone from the file) with no notification and with next_run_at not
\* advanced, so that no later cycle sees it.
C17_FailingRecurringIsDropped ==
    \A r \in SweepInput :
        (Resolvable(r) /\ Recurring(r))
        => /\ DueInGrace(r)
                => /\ CallsFor(r.id) = 1
                   /\ (\E k \in 1..Len(sweep.calls) :
                          sweep.calls[k].id = r.id /\ ~sweep.calls[k].success)
                        => (r \in Range(sweep.updated)
                            /\ (CycleOver => r \in Range(reminders_file)))
           /\ Stale(r)
                => /\ CallsFor(r.id) = 0
                   /\ [r EXCEPT !.status = "done"] \in Range(sweep.completed)
                   /\ \E a \in Range(archive_file) :
                         /\ a.id = r.id /\ a.status = "done"
                         /\ a.next_run_at = r.next_run_at
                   /\ CycleOver => \A f \in Range(reminders_file) : f.id # r.id

\* the fields process_due_reminders has no business with
FrameFields == {"id", "user_id", "text", "schedule", "created_at"}

\* after has the frame fields of before, with the same values
SameFrame(before, after) ==
    \A f \in FrameFields \cap DOMAIN before : f \in DOMAIN after /\ after[f] = before[f]

\* what the sweep made of input reminder r: its entry in the active list, and
\* its entry in the archive
OutputsOf(r) ==
    {u \in Range(sweep.updated) : u.id = r.id}
    \cup {a \in Range(archive_file) : a.id = r.id}

\* C18 as stated: the sweep changes no field other than next_run_at and
\* status, in the active list and in the archived list, and adds no field.
C18_NoFieldChangedOrAdded ==
    \A r \in SweepInput : \A o \in OutputsOf(r) :
        SameFrame(r, o) /\ DOMAIN o = DOMAIN r

\* C18 amended: the sweep changes no field other than next_run_at and status;
\* the active list has exactly the fields of the input, and an archived
\* reminder has them and one more, archived_at.
C18_OnlyArchivedAtIsAdded ==
    \A r \in SweepInput :
        /\ \A u \in Range(sweep.updated) :
              u.id = r.id => (SameFrame(r, u) /\ DOMAIN u = DOMAIN r)
        /\ \A a \in Range(archive_file) :
              a.id = r.id => /\ SameFrame(r, a)
                             /\ DOMAIN a = DOMAIN r \cup {"archived_at"}
                             /\ a.archived_at = Isoformat(FromSeconds(sweep.now))

\* a sweep that advanced one reminder and archived another
C18_Witness ==
    /\ pc = "ended"
    /\ ~sweep.raised
    /\ \E r, q \in SweepInput :
          /\ Resolvable(r) /\ Resolvable(q)
          /\ \E u \in Range(sweep.updated) : u.id = r.id /\ u.next_run_at # r.next_run_at
          /\ \E a \in Range(archive_file) : a.id = q.id /\ a.status = "done"

----------------------------------------------------------------------------
(* Properties of the scheduler under I/O failures *)

\* C14: when the read of the persisted collection fails, the cycle is
\* abandoned: the notifier is not called, nothing is saved and the persisted
\* collection is after the cycle what it was before; the loop goes on.
C14_LoadFailureAbandonsCycle ==
    main.load_failed
    => /\ reminders_file = main.before
       /\ pc \in {"processed", "ended"} => sweep.calls = <<>>

\* C16: when a cycle ends in an exception (of the load, the sweep or the
\* save), the sleep main takes next is the default 30 s, and main goes on to
\* the next cycle.
C16_ErrorFallsBackToDefault ==
    main.error
    => /\ pc \in {"ended", "idle"}
       /\ IsSome(main.sleep_duration) => main.sleep_duration.val = 30000

\* C19: the archive is append-only: a write of the archive keeps every entry
\* it held, in order, and adds the reminders the sweep retired after them,
\* also when the archive could not be read.
C19_ArchiveAppendOnly ==
    [][archive_file' # archive_file
         => /\ Len(archive_file') = Len(archive_file) + Len(sweep'.completed)
            /\ SubSeq(archive_file', 1, Len(archive_file)) = archive_file
            /\ \A i \in 1..Len(sweep'.completed) :
                  archive_file'[Len(archive_file) + i].id = sweep'.completed[i].id]_vars

----------------------------------------------------------------------------
(* time_parser.py: the characters of the patterns, and the regex pieces *)

KanjiNoon == "U+5348"      \* 午

KanjiBefore == "U+524D"    \* 前

KanjiHour == "U+6642"      \* 時

KanjiInterval == "U+9593"  \* 間

KanjiDay == "U+65E5"       \* 日

KanjiMonth == "U+6708"     \* 月

KanjiFire == "U+706B"      \* 火

KanjiWater == "U+6C34"     \* 水

KanjiWood == "U+6728"      \* 木

KanjiGold == "U+91D1"      \* 金

KanjiEarth == "U+571F"     \* 土

KanjiWeekday == "U+66DC"   \* 曜

KanjiEvery == "U+6BCE"     \* 毎

KanjiWeek == "U+9031"      \* 週

KanjiCome == "U+6765"      \* 来

KanjiBright == "U+660E"    \* 明

KanjiNow == "U+4ECA"       \* 今

KanjiYear == "U+5E74"      \* 年

KanaNo == "U+306E"         \* の

\* what \s matches and strip() removes: the space and the ideographic space
Whitespace == {" ", "U+3000"}

\* the character at position i, or "" past the end of the text
At(text, i) == IF i >= 1 /\ i <= Len(text) THEN text[i] ELSE ""

\* the text from position i on
Rest(text, i) == SubSeq(text, i, Len(text))

\* the number of digits that follow each other from position i on
RECURSIVE DigitRunAt(_, _)
DigitRunAt(text, i) ==
    IF i <= Len(text) /\ IsDigit(text[i]) THEN 1 + DigitRunAt(text, i + 1) ELSE 0

\* \s*: the first position from i on that holds no whitespace
RECURSIVE SkipSpace(_, _)
SkipSpace(text, i) ==
    IF i <= Len(text) /\ text[i] \in Whitespace THEN SkipSpace(text, i + 1) ELSE i

\* str.strip()
RECURSIVE StripRight(_)
StripRight(text) ==
    IF text # <<>> /\ text[Len(text)] \in Whitespace
    THEN StripRight(SubSeq(text, 1, Len(text) - 1))
    ELSE text

Strip(text) == StripRight(Rest(text, SkipSpace(text, 1)))

\* str.replace(old, ""), old being one character
RECURSIVE Remove(_, _)
Remove(text, old) ==
    IF text = <<>> THEN <<>>
    ELSE IF Head(text) = old THEN Remove(Tail(text), old)
    ELSE <<Head(text)>> \o Remove(Tail(text), old)

\* the digits (\d{1,2}) or (\d{0,2}) takes at position i when what follows
\* it in the pattern is optional: as many as there are, two at most
UpToTwoDigits(text, i) == IF DigitRunAt(text, i) > 2 THEN 2 ELSE DigitRunAt(text, i)

----------------------------------------------------------------------------
(* time_parser.py: parse_time_with_ampm *)

\* a variant that lets hour 24 through
validateUpTo24(hour, minute) ==
    IF ~(0 <= minute /\ minute < 60) THEN None
    ELSE IF ~(0 <= hour /\ hour <= 24) THEN None
    ELSE Some(<<hour, minute>>)

\* validate(hour, minute)
validate(hour, minute) ==
    IF ~(0 <= minute /\ minute < 60) THEN None
    ELSE IF ~(0 <= hour /\ hour < 24) THEN None
    ELSE Some(<<hour, minute>>)

\* re.match(marker \s*(\d{1,2})時?(\d{0,2})分?, time_text), marker being 午 and
\* a second character: Some(<<hour, minute>>) as the groups give them, or NoMatch
MatchMarkedTime(time_text, second) ==
    IF At(time_text, 1) # KanjiNoon \/ At(time_text, 2) # second THEN NoMatch
    ELSE LET i == SkipSpace(time_text, 3)
             k == UpToTwoDigits(time_text, i)
             j == IF At(time_text, i + k) = KanjiHour THEN i + k + 1 ELSE i + k
             m == UpToTwoDigits(time_text, j)
         IN  IF k = 0 THEN NoMatch
             ELSE Some(<<IntOf(SubSeq(time_text, i, i + k - 1)),
                         IF m = 0 THEN 0 ELSE IntOf(SubSeq(time_text, j, j + m - 1))>>)

\* re.match((\d{1,2})[時:](\d{0,2})分?, time_text)
MatchPlainTime(time_text) ==
    LET k == DigitRunAt(time_text, 1)
        m == UpToTwoDigits(time_text, k + 2)
    IN  IF k \in {1, 2} /\ At(time_text, k + 1) \in {KanjiHour, ":"}
        THEN Some(<<IntOf(SubSeq(time_text, 1, k)),
                    IF m = 0 THEN 0 ELSE IntOf(SubSeq(time_text, k + 2, k + 1 + m))>>)
        ELSE NoMatch

\* None, or Some(<<hour, minute>>)
parse_time_with_ampm(time_text) ==
    LET pm == MatchMarkedTime(time_text, Go)
        am == MatchMarkedTime(time_text, KanjiBefore)
        plain == MatchPlainTime(time_text)
    IN  IF IsSome(pm)
        THEN validate(IF pm.val[1] # 12 THEN pm.val[1] + 12 ELSE pm.val[1], pm.val[2])
        ELSE IF IsSome(am)
        THEN validate(IF am.val[1] = 12 THEN 0 ELSE am.val[1], am.val[2])
        ELSE IF IsSome(plain) THEN validate(plain.val[1], plain.val[2])
        ELSE None

----------------------------------------------------------------------------
(* The time-of-day sub-parser applied to drawn inputs *)

\* the largest hour written in the drawn time texts
TimeMaxHour == 25

\* the minutes written in the drawn time texts; -1 is no minute at all
TimeMinutes == {-1, 0, 5, 30, 59, 60, 75}

\* the text of a time of day: marker is "pm", "am" or "", sep is "h" for 時,
\* ":" or "" (nothing between hour and minute), suffix says whether 分 ends it
TimeText(marker, hour, sep, minute, suffix) ==
    (IF marker = "pm" THEN <<KanjiNoon, Go>>
     ELSE IF marker = "am" THEN <<KanjiNoon, KanjiBefore>> ELSE <<>>)
    \o StrOf(hour)
    \o (IF sep = "h" THEN <<KanjiHour>> ELSE IF sep = ":" THEN <<":">> ELSE <<>>)
    \o (IF minute < 0 THEN <<>>
        ELSE (IF minute < 10 THEN <<"0">> ELSE <<>>) \o StrOf(minute))
    \o (IF suffix THEN <<Fun>> ELSE <<>>)

\* the written times: unmarked ones need a separator, and a marked one without
\* a separator has no minute
TimeInputs ==
    {in \in [marker : {"pm", "am", ""}, hour : 0..TimeMaxHour, sep : {"h", ":", ""},
             minute : TimeMinutes, suffix : BOOLEAN] :
        /\ in.marker = "" => in.sep # ""
        /\ in.sep = "" => in.minute < 0
        /\ in.suffix => in.minute >= 0}

TimeIdle(in) ==
    [fn |-> "idle", in |-> in,
     text |-> TimeText(in.marker, in.hour, in.sep, in.minute, in.suffix),
     result |-> None]

InitTime ==
    /\ clock = 0
    /\ reminders_file = <<>>
    /\ archive_file = <<>>
    /\ pc = "idle"
    /\ loaded = <<>>
    /\ sweep = NoSweep
    /\ fs = NoFile
    /\ main = NoMain
    /\ \E in \in TimeInputs : calc = TimeIdle(in)

CallParseTimeWithAmpm ==
    /\ calc.fn = "idle"
    /\ calc' = [calc EXCEPT !.fn = "parse_time_with_ampm",
                            !.result = parse_time_with_ampm(calc.text)]
    /\ UNCHANGED <<clock, reminders_file, archive_file, pc, loaded, sweep, fs, main>>

NextTime == CallParseTimeWithAmpm

SpecTime == InitTime /\ [][NextTime]_vars

\* the hour the written time stands for
TimeHourMeant(in) ==
    IF in.marker = "pm" THEN (IF in.hour = 12 THEN 12 ELSE in.hour + 12)
    ELSE IF in.marker = "am" THEN (IF in.hour = 12 THEN 0 ELSE in.hour)
    ELSE in.hour

\* the minute the sub-parser reads: after a marker the pattern has no place
\* for a colon, and what follows one is not read
TimeMinuteRead(in) ==
    IF in.minute < 0 \/ (in.marker # "" /\ in.sep = ":") THEN 0 ELSE in.minute

\* C26: the sub-parser maps 午後H to H + 12 unless H is 12, 午前12 to 0 and
\* other 午前H to H, leaves unmarked hours as written, fails whenever the
\* resulting hour is 24 or more or the minute 60 or more, and returns only
\* hours in 0..23 with minutes in 0..59.
C26_TimeOfDay ==
    calc.fn = "parse_time_with_ampm"
    => /\ (TimeHourMeant(calc.in) >= 24 \/ TimeMinuteRead(calc.in) >= 60)
            => calc.result = None
       /\ (TimeHourMeant(calc.in) < 24 /\ TimeMinuteRead(calc.in) < 60)
            => calc.result = Some(<<TimeHourMeant(calc.in), TimeMinuteRead(calc.in)>>)
       /\ IsSome(calc.result)
            => calc.result.val[1] \in 0..23 /\ calc.result.val[2] \in 0..59

\* 午後11時59分 is 23:59
C26_Witness ==
    /\ calc.fn = "parse_time_with_ampm"
    /\ calc.in = [marker |-> "pm", hour |-> 11, sep |-> "h", minute |-> 59,
                  suffix |-> TRUE]
    /\ calc.result = Some(<<23, 59>>)

-----------------------------------------------------------------------------
(* time_parser.py: parse_natural_time, patterns 0b to 13 *)

\* where (.+) starts when \s*(.+) is matched from position p on; 0 when it
\* cannot match. \s* takes every whitespace there is and gives the last one
\* back when nothing else is left for (.+).
RestAfterSpaces(text, p) ==
    LET j == SkipSpace(text, p) IN
    IF j <= Len(text) THEN j ELSE IF j > p THEN j - 1 ELSE 0

\* the same for \s+(.+), which keeps one whitespace at least
RestAfterSpaces1(text, p) ==
    LET j == SkipSpace(text, p) IN
    IF j = p THEN 0 ELSE IF j <= Len(text) THEN j ELSE IF j > p + 1 THEN j - 1 ELSE 0

\* the first of the positions ends, tried in order, from which \s*(.+) matches;
\* 0 when there is none
FirstWithRest(text, ends) ==
    LET ok == {n \in 1..Len(ends) : RestAfterSpaces(text, ends[n]) # 0} IN
    IF ok = {} THEN 0 ELSE CHOOSE n \in ok : \A m \in ok : n <= m

\* a < b for two datetimes
Before(a, b) ==
    LET x == Isoformat(a)
        y == Isoformat(b)
    IN  \E i \in 1..6 : x[i] < y[i] /\ \A j \in 1..(i - 1) : x[j] = y[j]

\* target_time.replace(hour=hour, minute=minute, second=0, microsecond=0)
AtTime(target_time, hour, minute) ==
    [target_time EXCEPT !.hour = hour, !.minute = minute, !.second = 0]

WeekdayChars ==
    <<KanjiMonth, KanjiFire, KanjiWater, KanjiWood, KanjiGold, KanjiEarth, KanjiDay>>

\* weekday_map.get(weekday_text): Some(0..6), or None
get_weekday_number(weekday_text) ==
    LET known == {n \in 1..7 :
                    weekday_text \in {<<WeekdayChars[n]>>,
                                      <<WeekdayChars[n], KanjiWeekday>>,
                                      <<WeekdayChars[n], KanjiWeekday, KanjiDay>>}}
    IN  IF known = {} THEN None ELSE Some((CHOOSE n \in known : TRUE) - 1)

\* a variant that also refuses the instant of the clock reading itself
is_past_timeOrNow(target_time, now2) == ~Before(now2, target_time)

\* is_past_time: now2 is what its own reading of the clock returns
is_past_time(target_time, now2) == Before(target_time, now2)

\* re.match(r"(\d+)時間後", text): Some(digits), or NoMatch
MatchHoursLater(text) ==
    LET k == DigitRunAt(text, 1) IN
    IF k >= 1 /\ At(text, k + 1) = KanjiHour /\ At(text, k + 2) = KanjiInterval
       /\ At(text, k + 3) = Go
    THEN Some(SubSeq(text, 1, k))
    ELSE NoMatch

\* pattern 0b
RelativeHours(text, now) ==
    LET match == MatchHoursLater(text) IN
    IF ~IsSome(match) THEN NoMatch
    ELSE IF IntOf(match.val) <= 0 \/ IntOf(match.val) > 168 THEN None
    ELSE OnceResult(AddSeconds(now, 3600 * IntOf(match.val)))

\* re.match(r"(\d+)日後\s+(.+)", text): Some(<<digits, time_part>>), or NoMatch
MatchDaysLaterAt(text) ==
    LET k == DigitRunAt(text, 1)
        start == RestAfterSpaces1(text, k + 3)
    IN  IF k >= 1 /\ At(text, k + 1) = KanjiDay /\ At(text, k + 2) = Go /\ start # 0
        THEN Some(<<SubSeq(text, 1, k), Rest(text, start)>>)
        ELSE NoMatch

\* the once schedule at hour:minute, days after now
OnceDaysAhead(now, days, hour, minute) == OnceResult(AtTime(AddDays(now, days), hour, minute))

\* pattern 0c
RelativeDaysAt(text, now) ==
    LET match == MatchDaysLaterAt(text) IN
    IF ~IsSome(match) THEN NoMatch
    ELSE IF IntOf(match.val[1]) <= 0 \/ IntOf(match.val[1]) > 365 THEN None
    ELSE LET time_tuple == parse_time_with_ampm(match.val[2]) IN
         IF time_tuple = None THEN None
         ELSE OnceDaysAhead(now, IntOf(match.val[1]), time_tuple.val[1], time_tuple.val[2])

\* re.match(r"(\d+)日後$", text): Some(digits), or NoMatch
MatchDaysLater(text) ==
    LET k == DigitRunAt(text, 1) IN
    IF k >= 1 /\ At(text, k + 1) = KanjiDay /\ At(text, k + 2) = Go /\ Len(text) = k + 2
    THEN Some(SubSeq(text, 1, k))
    ELSE NoMatch

\* pattern 0d
RelativeDays(text, now) ==
    LET match == MatchDaysLater(text) IN
    IF ~IsSome(match) THEN NoMatch
    ELSE IF IntOf(match.val) <= 0 \/ IntOf(match.val) > 365 THEN None
    ELSE OnceDaysAhead(now, IntOf(match.val), 9, 0)

\* the lengths ([月火水木金土日]曜?日?) can take at position i, longest first
WeekdayGroupLengths(text, i) ==
    IF At(text, i + 1) = KanjiWeekday
    THEN (IF At(text, i + 2) = KanjiDay THEN <<3>> ELSE <<>>) \o <<2, 1>>
    ELSE (IF At(text, i + 1) = KanjiDay THEN <<2>> ELSE <<>>) \o <<1>>

\* re.match(first + r"週\s*([月火水木金土日]曜?日?)\s*(.+)", text):
\* Some(<<weekday_text, time_part>>), or NoMatch
MatchWeekPhrase(text, first) ==
    LET i == SkipSpace(text, 3)
        lengths == WeekdayGroupLengths(text, i)
        n == FirstWithRest(text, [m \in 1..Len(lengths) |-> i + lengths[m]])
    IN  IF At(text, 1) = first /\ At(text, 2) = KanjiWeek
           /\ (\E c \in 1..7 : At(text, i) = WeekdayChars[c]) /\ n # 0
        THEN Some(<<SubSeq(text, i, i + lengths[n] - 1),
                    Rest(text, RestAfterSpaces(text, i + lengths[n]))>>)
        ELSE NoMatch

\* desc of a weekly schedule: f"毎週{weekday_text} {time_str}"
DescribeWeekly(weekday_text, time) == <<KanjiEvery, KanjiWeek, weekday_text, time>>

\* pattern 1
EveryWeek(text) ==
    LET match == MatchWeekPhrase(text, KanjiEvery) IN
    IF ~IsSome(match) THEN NoMatch
    ELSE LET weekday == get_weekday_number(match.val[1])
             time_tuple == parse_time_with_ampm(match.val[2])
         IN  IF weekday = None THEN None
             ELSE IF time_tuple = None THEN None
             ELSE Some(<<WeeklySchedule(weekday.val, time_tuple.val),
                         DescribeWeekly(match.val[1], time_tuple.val)>>)

\* what (\d{1,2})日? can take at position i, as <<digits, position after>>,
\* in the order the pattern tries them
DayGroupEnds(text, i) ==
    LET after(k) == (IF At(text, i + k) = KanjiDay THEN <<<<k, i + k + 1>>>> ELSE <<>>)
                    \o <<<<k, i + k>>>>
    IN  IF UpToTwoDigits(text, i) = 2 THEN after(2) \o after(1)
        ELSE IF UpToTwoDigits(text, i) = 1 THEN after(1)
        ELSE <<>>

\* re.match(r"毎月\s*(\d{1,2})日?\s*(.+)", text): Some(<<digits, time_part>>),
\* or NoMatch
MatchEveryMonth(text) ==
    LET i == SkipSpace(text, 3)
        ends == DayGroupEnds(text, i)
        n == FirstWithRest(text, [m \in 1..Len(ends) |-> ends[m][2]])
    IN  IF At(text, 1) = KanjiEvery /\ At(text, 2) = KanjiMonth /\ n # 0
        THEN Some(<<SubSeq(text, i, i + ends[n][1] - 1),
                    Rest(text, RestAfterSpaces(text, ends[n][2]))>>)
        ELSE NoMatch

\* desc of a monthly schedule: f"毎月{day}日 {time_str}"
DescribeMonthly(day, time) == <<KanjiEvery, KanjiMonth, day, time>>

\* pattern 2
EveryMonth(text) ==
    LET match == MatchEveryMonth(text) IN
    IF ~IsSome(match) THEN NoMatch
    ELSE LET day == IntOf(match.val[1])
             time_tuple == parse_time_with_ampm(match.val[2])
         IN  IF ~(1 <= day /\ day <= 31) THEN None
             ELSE IF time_tuple = None THEN None
             ELSE Some(<<MonthlySchedule(day, time_tuple.val),
                         DescribeMonthly(day, time_tuple.val)>>)

\* strftime("%Y年%m月%d日(%a) %H:%M") with the weekday's name replaced
DescribeOnceWithWeekday(dt) ==
    <<dt.year, dt.month, dt.day, WeekdayChars[WeekdayOf(dt) + 1], dt.hour, dt.minute>>

\* a variant that goes to the same weekday's next occurrence a week or more on
DaysAheadAtLeastAWeek(weekday, now) == ((weekday - WeekdayOf(now)) % 7) + 7

\* days_ahead = weekday - now.weekday() + 7
DaysAhead(weekday, now) == weekday - WeekdayOf(now) + 7

\* pattern 3
NextWeek(text, now) ==
    LET match == MatchWeekPhrase(text, KanjiCome) IN
    IF ~IsSome(match) THEN NoMatch
    ELSE LET weekday == get_weekday_number(match.val[1])
             time_tuple == parse_time_with_ampm(match.val[2])
         IN  IF weekday = None THEN None
             ELSE IF time_tuple = None THEN None
             ELSE LET target_time == AtTime(AddDays(now, DaysAhead(weekday.val, now)),
                                            time_tuple.val[1], time_tuple.val[2])
                  IN  Some(<<OnceSchedule(Isoformat(target_time)),
                             DescribeOnceWithWeekday(target_time)>>)

\* re.match(word + r"\s*(.+)", text).group(1).replace("の", "").strip():
\* Some(time_part), or NoMatch
MatchDayWord(text, word) ==
    LET start == RestAfterSpaces(text, Len(word) + 1) IN
    IF Len(text) >= Len(word) /\ SubSeq(text, 1, Len(word)) = word /\ start # 0
    THEN Some(Strip(Remove(Rest(text, start), KanaNo)))
    ELSE NoMatch

DayAfterTomorrowWord == <<KanjiBright, Go, KanjiDay>>

TomorrowWord == <<KanjiBright, KanjiDay>>

TodayWord == <<KanjiNow, KanjiDay>>

\* patterns 4 and 5: the time of day, days after today
DayWordAhead(text, now, word, days) ==
    LET match == MatchDayWord(text, word) IN
    IF ~IsSome(match) THEN NoMatch
    ELSE LET time_tuple == parse_time_with_ampm(match.val) IN
         IF time_tuple = None THEN None
         ELSE OnceDaysAhead(now, days, time_tuple.val[1], time_tuple.val[2])

\* a variant that keeps today's date when the time is exactly now
TodayOrTomorrowKeepsNow(now, hour, minute) ==
    LET target_time == AtTime(now, hour, minute) IN
    IF Before(target_time, now) THEN AddDays(target_time, 1) ELSE target_time

\* target_time = now.replace(...); if target_time <= now: target_time += 1 day
TodayOrTomorrow(now, hour, minute) ==
    LET target_time == AtTime(now, hour, minute) IN
    IF ~Before(now, target_time) THEN AddDays(target_time, 1) ELSE target_time

\* pattern 6
Today(text, now) ==
    LET match == MatchDayWord(text, TodayWord) IN
    IF ~IsSome(match) THEN NoMatch
    ELSE LET time_tuple == parse_time_with_ampm(match.val) IN
         IF time_tuple = None THEN None
         ELSE OnceResult(TodayOrTomorrow(now, time_tuple.val[1], time_tuple.val[2]))

\* pattern 7: a text the sub-parser does not read is left to the patterns
\* that follow
TimeOnly(text, now) ==
    LET time_tuple == parse_time_with_ampm(text) IN
    IF time_tuple = None THEN NoMatch
    ELSE OnceResult(TodayOrTomorrow(now, time_tuple.val[1], time_tuple.val[2]))

\* datetime(year, month, day, hour, minute, tzinfo=TZ): Some(datetime) or ValueError
datetime(year, month, day, hour, minute) == Replace(year, month, day, hour, minute, 0)

\* the digits of a group (\d{1,2}) at position i that a character which is no
\* digit has to follow: 0 when there are none or more than two
OneOrTwoDigits(text, i) == IF DigitRunAt(text, i) \in {1, 2} THEN DigitRunAt(text, i) ELSE 0

\* re.match(r"(\d{4})-(\d{1,2})-(\d{1,2})", text) up to the day:
\* Some(<<year, month, day, position after>>), or NoMatch
MatchIsoDate(text) ==
    LET k2 == OneOrTwoDigits(text, 6)
        k3 == UpToTwoDigits(text, 7 + k2)
    IN  IF DigitRunAt(text, 1) = 4 /\ At(text, 5) = "-" /\ k2 # 0
           /\ At(text, 6 + k2) = "-" /\ k3 # 0
        THEN Some(<<IntOf(SubSeq(text, 1, 4)), IntOf(SubSeq(text, 6, 5 + k2)),
                    IntOf(SubSeq(text, 7 + k2, 6 + k2 + k3)), 7 + k2 + k3>>)
        ELSE NoMatch

\* re.match(r"(\d{4})-(\d{1,2})-(\d{1,2})$", text)
MatchIsoDateOnly(text) ==
    LET match == MatchIsoDate(text) IN
    IF IsSome(match) /\ match.val[4] = Len(text) + 1 THEN match ELSE NoMatch

\* pattern 8
IsoDateOnly(text) ==
    LET match == MatchIsoDateOnly(text) IN
    IF ~IsSome(match) THEN NoMatch
    ELSE LET target_time == datetime(match.val[1], match.val[2], match.val[3], 9, 0) IN
         IF IsRaise(target_time) THEN None ELSE OnceResult(target_time.val)

\* re.match(r"(\d{1,2})" + sep + r"(\d{1,2})" + r"日?$", text), 日? being there
\* when day_mark says so: Some(<<month, day>>), or NoMatch
MatchMonthDay(text, sep, day_mark) ==
    LET k1 == OneOrTwoDigits(text, 1)
        k2 == OneOrTwoDigits(text, k1 + 2)
        stop == IF day_mark /\ At(text, k1 + k2 + 2) = KanjiDay
               THEN k1 + k2 + 3 ELSE k1 + k2 + 2
    IN  IF k1 # 0 /\ At(text, k1 + 1) = sep /\ k2 # 0 /\ stop = Len(text) + 1
        THEN Some(<<IntOf(SubSeq(text, 1, k1)), IntOf(SubSeq(text, k1 + 2, k1 + k2 + 1))>>)
        ELSE NoMatch

\* a variant that keeps the date in this year when it is exactly now
IsOverStrictly(target_time, now) == Before(target_time, now)

\* target_time <= now
IsOver(target_time, now) == ~Before(now, target_time)

\* patterns 9 and 10 after the match: 09:00 of the date in now's year, and
\* in the year after it when that is over
DateWithoutYear(month, day, now) ==
    LET target_time == datetime(now.year, month, day, 9, 0)
        next_year == datetime(now.year + 1, month, day, 9, 0)
    IN  IF IsRaise(target_time) THEN None
        ELSE IF ~IsOver(target_time.val, now) THEN OnceResult(target_time.val)
        ELSE IF IsRaise(next_year) THEN None
        ELSE OnceResult(next_year.val)

\* pattern 9
SlashDate(text, now) ==
    LET match == MatchMonthDay(text, "/", FALSE) IN
    IF ~IsSome(match) THEN NoMatch ELSE DateWithoutYear(match.val[1], match.val[2], now)

\* pattern 10
MonthDayDate(text, now) ==
    LET match == MatchMonthDay(text, KanjiMonth, TRUE) IN
    IF ~IsSome(match) THEN NoMatch ELSE DateWithoutYear(match.val[1], match.val[2], now)

\* re.match(r"(\d{4})年\s*(\d{1,2})月\s*(\d{1,2})", text):
\* Some(<<year, month, day, position after the day's digits>>), or NoMatch
MatchKanjiDate(text) ==
    LET i == SkipSpace(text, 6)
        k2 == OneOrTwoDigits(text, i)
        j == SkipSpace(text, i + k2 + 1)
        k3 == OneOrTwoDigits(text, j)
    IN  IF DigitRunAt(text, 1) = 4 /\ At(text, 5) = KanjiYear /\ k2 # 0
           /\ At(text, i + k2) = KanjiMonth /\ k3 # 0
        THEN Some(<<IntOf(SubSeq(text, 1, 4)), IntOf(SubSeq(text, i, i + k2 - 1)),
                    IntOf(SubSeq(text, j, j + k3 - 1)), j + k3>>)
        ELSE NoMatch

\* the position after 日? at position p
AfterDayMark(text, p) == IF At(text, p) = KanjiDay THEN p + 1 ELSE p

\* re.match(r"(\d{4})年\s*(\d{1,2})月\s*(\d{1,2})日?$", text)
MatchKanjiDateOnly(text) ==
    LET match == MatchKanjiDate(text) IN
    IF IsSome(match) /\ AfterDayMark(text, match.val[4]) = Len(text) + 1
    THEN match ELSE NoMatch

\* year > now.year + 5
TooFarAhead(year, now) == year > now.year + 5

\* patterns 11, 12 and 13 after the match and the reading of the time
DateWithYear(year, month, day, hour, minute, now, now2) ==
    LET target_time == datetime(year, month, day, hour, minute) IN
    IF IsRaise(target_time) THEN None
    ELSE IF is_past_time(target_time.val, now2) THEN None
    ELSE OnceResult(target_time.val)

\* pattern 11
KanjiDateOnly(text, now, now2) ==
    LET match == MatchKanjiDateOnly(text) IN
    IF ~IsSome(match) THEN NoMatch
    ELSE IF TooFarAhead(match.val[1], now) THEN None
    ELSE DateWithYear(match.val[1], match.val[2], match.val[3], 9, 0, now, now2)

\* re.match(r"(\d{4})年\s*(\d{1,2})月\s*(\d{1,2})日?\s+(.+)", text):
\* Some(<<year, month, day, time_part>>), or NoMatch
MatchKanjiDateTime(text) ==
    LET match == MatchKanjiDate(text)
        marked == IF IsSome(match)
                  THEN RestAfterSpaces1(text, AfterDayMark(text, match.val[4])) ELSE 0
        unmarked == IF IsSome(match) THEN RestAfterSpaces1(text, match.val[4]) ELSE 0
    IN  IF marked # 0
        THEN Some(<<match.val[1], match.val[2], match.val[3], Rest(text, marked)>>)
        ELSE IF unmarked # 0
        THEN Some(<<match.val[1], match.val[2], match.val[3], Rest(text, unmarked)>>)
        ELSE NoMatch

\* pattern 12
KanjiDateTime(text, now, now2) ==
    LET match == MatchKanjiDateTime(text) IN
    IF ~IsSome(match) THEN NoMatch
    ELSE IF TooFarAhead(match.val[1], now) THEN None
    ELSE LET time_tuple == parse_time_with_ampm(match.val[4]) IN
         IF IsNone(time_tuple) THEN None
         ELSE DateWithYear(match.val[1], match.val[2], match.val[3],
                           time_tuple.val[1], time_tuple.val[2], now, now2)

\* re.match(r"(\d{4})-(\d{1,2})-(\d{1,2})\s+(\d{1,2}):(\d{1,2})", text):
\* Some(<<year, month, day, hour, minute>>), or NoMatch
MatchIsoDateTime(text) ==
    LET match == MatchIsoDate(text)
        j == IF IsSome(match) THEN SkipSpace(text, match.val[4]) ELSE 0
        kh == OneOrTwoDigits(text, j)
        km == UpToTwoDigits(text, j + kh + 1)
    IN  IF IsSome(match) /\ j > match.val[4] /\ kh # 0 /\ At(text, j + kh) = ":" /\ km # 0
        THEN Some(<<match.val[1], match.val[2], match.val[3],
                    IntOf(SubSeq(text, j, j + kh - 1)),
                    IntOf(SubSeq(text, j + kh + 1, j + kh + km))>>)
        ELSE NoMatch

\* pattern 13
IsoDateTime(text, now, now2) ==
    LET match == MatchIsoDateTime(text) IN
    IF ~IsSome(match) THEN NoMatch
    ELSE IF TooFarAhead(match.val[1], now) THEN None
    ELSE DateWithYear(match.val[1], match.val[2], match.val[3],
                      match.val[4], match.val[5], now, now2)

\* what each pattern makes of the text, in the order the function tries them
Recognizers(text, now, now2) ==
    <<RelativeMinutes(text, now), RelativeHours(text, now), RelativeDaysAt(text, now),
      RelativeDays(text, now), EveryWeek(text), EveryMonth(text), NextWeek(text, now),
      DayWordAhead(text, now, DayAfterTomorrowWord, 2),
      DayWordAhead(text, now, TomorrowWord, 1), Today(text, now), TimeOnly(text, now),
      IsoDateOnly(text), SlashDate(text, now), MonthDayDate(text, now),
      KanjiDateOnly(text, now, now2), KanjiDateTime(text, now, now2),
      IsoDateTime(text, now, now2)>>

\* a variant that goes on to the later patterns when one has refused the text
FirstAccepted(results) ==
    LET accepted == {n \in 1..Len(results) : IsSome(results[n])} IN
    IF accepted = {} THEN None
    ELSE results[CHOOSE n \in accepted : \A m \in accepted : n <= m]

\* the first result that is a return
FirstReturned(results) ==
    LET returned == {n \in 1..Len(results) : results[n] # NoMatch} IN
    IF returned = {} THEN None
    ELSE results[CHOOSE n \in returned : \A m \in returned : n <= m]

\* None, or Some(<<schedule, desc>>); now is the function's reading of the
\* clock and now2 the later one of is_past_time
parse_natural_time(text, now, now2) == FirstReturned(Recognizers(Strip(text), now, now2))

-----------------------------------------------------------------------------
(* receive.py: parse_natural_time, the webhook's own copy. Its patterns are  *)
(* those of time_parser.py, but its nested parse_time_with_ampm returns      *)
(* the hour and minute it reads without checking their range.                *)

\* None, or Some(<<hour, minute>>) whatever the numbers are
receive_parse_time_with_ampm(time_text) ==
    LET pm == MatchMarkedTime(time_text, Go)
        am == MatchMarkedTime(time_text, KanjiBefore)
        plain == MatchPlainTime(time_text)
    IN  IF IsSome(pm)
        THEN Some(<<IF pm.val[1] # 12 THEN pm.val[1] + 12 ELSE pm.val[1], pm.val[2]>>)
        ELSE IF IsSome(am)
        THEN Some(<<IF am.val[1] = 12 THEN 0 ELSE am.val[1], am.val[2]>>)
        ELSE IF IsSome(plain) THEN Some(<<plain.val[1], plain.val[2]>>)
        ELSE None

\* target_time.replace(hour=hour, minute=minute, second=0, microsecond=0):
\* Some(datetime), or ValueError when hour or minute is out of range
ReplaceTime(target_time, hour, minute) ==
    Replace(target_time.year, target_time.month, target_time.day, hour, minute, 0)

\* the once schedule at hour:minute of target_time's day, or the ValueError
\* of the replace
ReceiveOnceAt(target_time, hour, minute) ==
    LET replaced == ReplaceTime(target_time, hour, minute) IN
    IF IsRaise(replaced) THEN ValueError ELSE OnceResult(replaced.val)

\* pattern 0c
ReceiveRelativeDaysAt(text, now) ==
    LET match == MatchDaysLaterAt(text) IN
    IF ~IsSome(match) THEN NoMatch
    ELSE IF IntOf(match.val[1]) <= 0 \/ IntOf(match.val[1]) > 365 THEN None
    ELSE LET time_tuple == receive_parse_time_with_ampm(match.val[2]) IN
         IF time_tuple = None THEN None
         ELSE ReceiveOnceAt(AddDays(now, IntOf(match.val[1])),
                            time_tuple.val[1], time_tuple.val[2])

\* pattern 1: the schedule holds the time as it was read
ReceiveEveryWeek(text) ==
    LET match == MatchWeekPhrase(text, KanjiEvery) IN
    IF ~IsSome(match) THEN NoMatch
    ELSE LET weekday == get_weekday_number(match.val[1])
             time_tuple == receive_parse_time_with_ampm(match.val[2])
         IN  IF weekday = None THEN None
             ELSE IF time_tuple = None THEN None
             ELSE Some(<<WeeklySchedule(weekday.val, time_tuple.val),
                         DescribeWeekly(match.val[1], time_tuple.val)>>)

\* pattern 2: the schedule holds the time as it was read
ReceiveEveryMonth(text) ==
    LET match == MatchEveryMonth(text) IN
    IF ~IsSome(match) THEN NoMatch
    ELSE LET day == IntOf(match.val[1])
             time_tuple == receive_parse_time_with_ampm(match.val[2])
         IN  IF ~(1 <= day /\ day <= 31) THEN None
             ELSE IF time_tuple = None THEN None
             ELSE Some(<<MonthlySchedule(day, time_tuple.val),
                         DescribeMonthly(day, time_tuple.val)>>)

\* pattern 3
ReceiveNextWeek(text, now) ==
    LET match == MatchWeekPhrase(text, KanjiCome) IN
    IF ~IsSome(match) THEN NoMatch
    ELSE LET weekday == get_weekday_number(match.val[1])
             time_tuple == receive_parse_time_with_ampm(match.val[2])
         IN  IF weekday = None THEN None
             ELSE IF time_tuple = None THEN None
             ELSE LET target_time == ReplaceTime(AddDays(now, DaysAhead(weekday.val, now)),
                                                 time_tuple.val[1], time_tuple.val[2])
                  IN  IF IsRaise(target_time) THEN ValueError
                      ELSE Some(<<OnceSchedule(Isoformat(target_time.val)),
                                  DescribeOnceWithWeekday(target_time.val)>>)

\* patterns 4 and 5
ReceiveDayWordAhead(text, now, word, days) ==
    LET match == MatchDayWord(text, word) IN
    IF ~IsSome(match) THEN NoMatch
    ELSE LET time_tuple == receive_parse_time_with_ampm(match.val) IN
         IF time_tuple = None THEN None
         ELSE ReceiveOnceAt(AddDays(now, days), time_tuple.val[1], time_tuple.val[2])

\* target_time = now.replace(...); if target_time <= now: target_time += 1 day
ReceiveTodayOrTomorrow(now, hour, minute) ==
    LET target_time == ReplaceTime(now, hour, minute) IN
    IF IsRaise(target_time) THEN ValueError
    ELSE IF ~Before(now, target_time.val) THEN OnceResult(AddDays(target_time.val, 1))
    ELSE OnceResult(target_time.val)

\* pattern 6
ReceiveToday(text, now) ==
    LET match == MatchDayWord(text, TodayWord) IN
    IF ~IsSome(match) THEN NoMatch
    ELSE LET time_tuple == receive_parse_time_with_ampm(match.val) IN
         IF time_tuple = None THEN None
         ELSE ReceiveTodayOrTomorrow(now, time_tuple.val[1], time_tuple.val[2])

\* pattern 7
ReceiveTimeOnly(text, now) ==
    LET time_tuple == receive_parse_time_with_ampm(text) IN
    IF time_tuple = None THEN NoMatch
    ELSE ReceiveTodayOrTomorrow(now, time_tuple.val[1], time_tuple.val[2])

\* pattern 12: datetime(...) is inside the try, its ValueError gives None
ReceiveKanjiDateTime(text, now, now2) ==
    LET match == MatchKanjiDateTime(text) IN
    IF ~IsSome(match) THEN NoMatch
    ELSE IF TooFarAhead(match.val[1], now) THEN None
    ELSE LET time_tuple == receive_parse_time_with_ampm(match.val[4]) IN
         IF IsNone(time_tuple) THEN None
         ELSE DateWithYear(match.val[1], match.val[2], match.val[3],
                           time_tuple.val[1], time_tuple.val[2], now, now2)

\* what each pattern makes of the text, in the order the function tries them
ReceiveRecognizers(text, now, now2) ==
    <<RelativeMinutes(text, now), RelativeHours(text, now),
      ReceiveRelativeDaysAt(text, now), RelativeDays(text, now),
      ReceiveEveryWeek(text), ReceiveEveryMonth(text), ReceiveNextWeek(text, now),
      ReceiveDayWordAhead(text, now, DayAfterTomorrowWord, 2),
      ReceiveDayWordAhead(text, now, TomorrowWord, 1), ReceiveToday(text, now),
      ReceiveTimeOnly(text, now), IsoDateOnly(text), SlashDate(text, now),
      MonthDayDate(text, now), KanjiDateOnly(text, now, now2),
      ReceiveKanjiDateTime(text, now, now2), IsoDateTime(text, now, now2)>>

\* None, Some(<<schedule, desc>>), or ValueError
receive_parse_natural_time(text, now, now2) ==
    FirstReturned(ReceiveRecognizers(Strip(text), now, now2))

-----------------------------------------------------------------------------
(* the parser called on one written schedule: calc holds the call *)

\* the reference days, from Monday 2025-01-27 on
NaturalDays == 7

\* the written years go up to this many years after 2025
NaturalYearsAhead == 6

\* the instants at which the parser reads the clock: each reference day at
\* 10:30:00, one of them twenty seconds later, the last second of a leap
\* year and 09:00:00 on the day after a 29 February
NaturalNows ==
    {AddDays(DateTime(2025, 1, 27, 10, 30, 0), n) : n \in 0..(NaturalDays - 1)}
    \cup {DateTime(2025, 1, 29, 10, 30, 20), DateTime(2024, 12, 31, 23, 59, 59),
          DateTime(2024, 3, 1, 9, 0, 0)}

\* a written time of day, as TimeText takes it
WrittenTime(marker, hour, sep, minute) ==
    [marker |-> marker, hour |-> hour, sep |-> sep, minute |-> minute, suffix |-> FALSE]

\* the times written after a day word or alone
NaturalTimes ==
    {in \in TimeInputs : in.hour \in {0, 10, 23, 24} /\ in.minute \in {-1, 0, 30, 59, 60}
                         /\ ~in.suffix}

\* the times written after a date, a weekday or a number of days
NaturalTimesAfter ==
    {WrittenTime("", 10, ":", 30), WrittenTime("", 10, "h", -1),
     WrittenTime("", 10, ":", 59), WrittenTime("pm", 10, "h", 30),
     WrittenTime("", 0, ":", 0), WrittenTime("", 24, ":", 0),
     WrittenTime("", 10, ":", 60)}

\* the written <<month, day>> pairs
NaturalMonthDays ==
    {<<1, 28>>, <<1, 29>>, <<1, 30>>, <<2, 29>>, <<2, 30>>, <<3, 1>>, <<12, 31>>, <<13, 1>>}

NaturalYears == {2024} \cup (2025..(2025 + NaturalYearsAhead))

\* the written <<hour, minute>> pairs of YYYY-MM-DD HH:MM
NaturalClockTimes == {<<9, 0>>, <<10, 29>>, <<10, 30>>, <<10, 31>>, <<24, 0>>, <<10, 60>>}

\* what is written, by kind
NaturalInputs ==
    [kind : {"minutes"}, n : {0, 1, 1440, 1441}]
    \cup [kind : {"hours"}, n : {0, 1, 168, 169}]
    \cup [kind : {"days"}, n : {0, 1, 365, 366}]
    \cup [kind : {"days_at"}, n : {0, 1, 365, 366}, time : NaturalTimesAfter]
    \cup [kind : {"every_week", "next_week"}, weekday : 0..6, form : 1..3,
          gap : {"", " "}, time : NaturalTimesAfter]
    \cup [kind : {"every_month"}, day : {0, 1, 15, 31, 32}, mark : BOOLEAN,
          time : NaturalTimesAfter]
    \cup [kind : {"day_after_tomorrow", "tomorrow"}, gap : {"", " "},
          time : NaturalTimesAfter]
    \cup [kind : {"today"}, gap : {"", " ", "no"}, time : NaturalTimes]
    \cup [kind : {"time"}, time : NaturalTimes]
    \cup [kind : {"iso_date", "kanji_date"}, year : NaturalYears, md : NaturalMonthDays]
    \cup [kind : {"slash_date", "month_day_date"}, md : NaturalMonthDays]
    \cup [kind : {"kanji_date_time"}, year : NaturalYears, md : NaturalMonthDays,
          time : NaturalTimesAfter]
    \cup [kind : {"iso_date_time"}, year : NaturalYears, md : NaturalMonthDays,
          hm : NaturalClockTimes]
    \cup [kind : {"other"}, n : 1..4]

\* n written with two digits at least
Pad2(n) == IF n < 10 THEN <<"0">> \o StrOf(n) ELSE StrOf(n)

WrittenGap(gap) == IF gap = "" THEN <<>> ELSE IF gap = "no" THEN <<KanaNo>> ELSE <<gap>>

WrittenTimeOf(in) ==
    TimeText(in.time.marker, in.time.hour, in.time.sep, in.time.minute, in.time.suffix)

WrittenWeekday(weekday, form) ==
    SubSeq(<<WeekdayChars[weekday + 1], KanjiWeekday, KanjiDay>>, 1, form)

\* texts no pattern is meant for
OtherTexts == <<<<"a", "b">>, <<"1", "2", "3">>, <<KanjiCome, KanjiWeek>>, <<KanjiNow, KanjiDay>>>>

\* the text of an input
NaturalText(in) ==
    IF in.kind = "minutes" THEN StrOf(in.n) \o <<Fun, Go>>
    ELSE IF in.kind = "hours" THEN StrOf(in.n) \o <<KanjiHour, KanjiInterval, Go>>
    ELSE IF in.kind = "days" THEN StrOf(in.n) \o <<KanjiDay, Go>>
    ELSE IF in.kind = "days_at"
    THEN StrOf(in.n) \o <<KanjiDay, Go, " ">> \o WrittenTimeOf(in)
    ELSE IF in.kind \in {"every_week", "next_week"}
    THEN <<IF in.kind = "every_week" THEN KanjiEvery ELSE KanjiCome, KanjiWeek>>
         \o WrittenWeekday(in.weekday, in.form) \o WrittenGap(in.gap) \o WrittenTimeOf(in)
    ELSE IF in.kind = "every_month"
    THEN <<KanjiEvery, KanjiMonth>> \o StrOf(in.day)
         \o (IF in.mark THEN <<KanjiDay>> ELSE <<" ">>) \o WrittenTimeOf(in)
    ELSE IF in.kind = "day_after_tomorrow"
    THEN DayAfterTomorrowWord \o WrittenGap(in.gap) \o WrittenTimeOf(in)
    ELSE IF in.kind = "tomorrow" THEN TomorrowWord \o WrittenGap(in.gap) \o WrittenTimeOf(in)
    ELSE IF in.kind = "today" THEN TodayWord \o WrittenGap(in.gap) \o WrittenTimeOf(in)
    ELSE IF in.kind = "time" THEN WrittenTimeOf(in)
    ELSE IF in.kind = "iso_date"
    THEN StrOf(in.year) \o <<"-">> \o Pad2(in.md[1]) \o <<"-">> \o Pad2(in.md[2])
    ELSE IF in.kind = "kanji_date"
    THEN StrOf(in.year) \o <<KanjiYear>> \o StrOf(in.md[1]) \o <<KanjiMonth>>
         \o StrOf(in.md[2]) \o <<KanjiDay>>
    ELSE IF in.kind = "slash_date" THEN StrOf(in.md[1]) \o <<"/">> \o StrOf(in.md[2])
    ELSE IF in.kind = "month_day_date"
    THEN StrOf(in.md[1]) \o <<KanjiMonth>> \o StrOf(in.md[2]) \o <<KanjiDay>>
    ELSE IF in.kind = "kanji_date_time"
    THEN StrOf(in.year) \o <<KanjiYear>> \o StrOf(in.md[1]) \o <<KanjiMonth>>
         \o StrOf(in.md[2]) \o <<KanjiDay, " ">> \o WrittenTimeOf(in)
    ELSE IF in.kind = "iso_date_time"
    THEN StrOf(in.year) \o <<"-">> \o Pad2(in.md[1]) \o <<"-">> \o Pad2(in.md[2])
         \o <<" ">> \o Pad2(in.hm[1]) \o <<":">> \o Pad2(in.hm[2])
    ELSE OtherTexts[in.n]

NaturalIdle(in, now, now2) ==
    [fn |-> "idle", in |-> in, text |-> NaturalText(in), now |-> now, now2 |-> now2,
     result |-> None, reminder |-> None]

\* the clock is read a second time, at the same second or the next
InitNatural ==
    /\ clock = 0
    /\ reminders_file = <<>>
    /\ archive_file = <<>>
    /\ pc = "idle"
    /\ loaded = <<>>
    /\ sweep = NoSweep
    /\ fs = NoFile
    /\ main = NoMain
    /\ \E in \in NaturalInputs, now \in NaturalNows :
         \E now2 \in {now, AddSeconds(now, 1)} : calc = NaturalIdle(in, now, now2)

CallParseNaturalTime ==
    /\ calc.fn = "idle"
    /\ calc' = [calc EXCEPT !.fn = "parse_natural_time",
                            !.result = parse_natural_time(calc.text, calc.now, calc.now2)]
    /\ UNCHANGED <<clock, reminders_file, archive_file, pc, loaded, sweep, fs, main>>

\* the registration that follows a successful parse:
\* create_reminder_object(user_id, message, schedule), the clock read at now2
CallCreateReminderObject ==
    /\ calc.fn = "parse_natural_time"
    /\ IsSome(calc.result)
    /\ calc' = [calc EXCEPT !.fn = "create_reminder_object",
                            !.reminder = create_reminder_object("id1", "U1", "text",
                                                                calc.result.val[1],
                                                                calc.now2)]
    /\ UNCHANGED <<clock, reminders_file, archive_file, pc, loaded, sweep, fs, main>>

NextNatural == CallParseNaturalTime \/ CallCreateReminderObject

SpecNatural == InitNatural /\ [][NextNatural]_vars

-----------------------------------------------------------------------------
(* properties of the parser *)

Parsed(kinds) == calc.fn = "parse_natural_time" /\ calc.in.kind \in kinds

\* the written time of day is one the sub-parser accepts
TimeReadable(in) == TimeHourMeant(in.time) < 24 /\ TimeMinuteRead(in.time) < 60

\* the written time of day on the date of dt
OnDateOf(dt, in) ==
    DateTime(dt.year, dt.month, dt.day, TimeHourMeant(in.time), TimeMinuteRead(in.time), 0)

\* the run_at of a result that is a once schedule
RunAtOf(result) == Fromisoformat(result.val[1].run_at).val

\* C22: 今日 <time> and a time of day alone give a once schedule at that time
\* on the reference date when that is strictly after the reference instant
\* and exactly one day later otherwise, so that run_at is always strictly
\* after the reference instant and at most 24 hours after it.
C22_TodayRollsToTomorrow ==
    (Parsed({"today", "time"}) /\ TimeReadable(calc.in))
    => /\ calc.result =
            OnceResult(IF Seconds(OnDateOf(calc.now, calc.in)) > Seconds(calc.now)
                       THEN OnDateOf(calc.now, calc.in)
                       ELSE AddDays(OnDateOf(calc.now, calc.in), 1))
       /\ Seconds(RunAtOf(calc.result)) > Seconds(calc.now)
       /\ Seconds(RunAtOf(calc.result)) - Seconds(calc.now) <= 86400

\* 今日の10:30 asked at 10:30:00 is tomorrow's 10:30
C22_Witness ==
    /\ Parsed({"today"})
    /\ calc.in.gap = "no"
    /\ calc.in.time = WrittenTime("", 10, ":", 30)
    /\ calc.now = DateTime(2025, 1, 29, 10, 30, 0)
    /\ calc.result = OnceResult(DateTime(2025, 1, 30, 10, 30, 0))

\* the number of days from the date of a to the date of b
DaysBetween(a, b) == ToOrdinal(b.year, b.month, b.day) - ToOrdinal(a.year, a.month, a.day)

\* C21 as stated: 来週<weekday><time> gives a once schedule on the target
\* weekday whose date is at least 7 days after the reference date, also when
\* the target weekday equals or is earlier in the week than the reference
\* weekday.
C21_AtLeastSevenDaysAhead ==
    (Parsed({"next_week"}) /\ TimeReadable(calc.in))
    => /\ IsSome(calc.result)
       /\ calc.result.val[1].type = "once"
       /\ WeekdayOf(RunAtOf(calc.result)) = calc.in.weekday
       /\ DaysBetween(calc.now, RunAtOf(calc.result)) >= 7

\* C21, amended: 来週<weekday><time> gives a once schedule at the written
\* time on the target weekday of the calendar week (Monday to Sunday) that
\* follows the week of the reference date: 7 + target weekday - reference
\* weekday days after the reference date, which is between 1 and 13 days and
\* at least 7 exactly when the target weekday is not earlier in the week than
\* the reference weekday.
C21_WeekdayOfTheFollowingWeek ==
    (Parsed({"next_week"}) /\ TimeReadable(calc.in))
    => /\ IsSome(calc.result)
       /\ calc.result.val[1] =
            OnceSchedule(Isoformat(OnDateOf(
                AddDays(calc.now, 7 + calc.in.weekday - WeekdayOf(calc.now)), calc.in)))
       /\ WeekdayOf(RunAtOf(calc.result)) = calc.in.weekday
       /\ DaysBetween(calc.now, RunAtOf(calc.result)) + WeekdayOf(calc.now) \in 7..13
       /\ DaysBetween(calc.now, RunAtOf(calc.result)) \in 1..13
       /\ DaysBetween(calc.now, RunAtOf(calc.result)) >= 7
            <=> calc.in.weekday >= WeekdayOf(calc.now)

\* 来週月曜日 10:30 asked on Wednesday 2025-01-29 is Monday 2025-02-03, five
\* days later
C21_Witness ==
    /\ Parsed({"next_week"})
    /\ calc.in.weekday = 0
    /\ calc.in.form = 3
    /\ calc.in.time = WrittenTime("", 10, ":", 30)
    /\ calc.now = DateTime(2025, 1, 29, 10, 30, 0)
    /\ calc.result.val[1] = OnceSchedule(Isoformat(DateTime(2025, 2, 3, 10, 30, 0)))

\* the hour and the minute a written date and time stand for
WrittenHour(in) == IF in.kind = "iso_date_time" THEN in.hm[1] ELSE TimeHourMeant(in.time)

WrittenMinute(in) == IF in.kind = "iso_date_time" THEN in.hm[2] ELSE TimeMinuteRead(in.time)

\* the written date and time exist
WrittenExists(in) ==
    /\ ValidDate(in.year, in.md[1], in.md[2])
    /\ WrittenHour(in) \in 0..23
    /\ WrittenMinute(in) \in 0..59

\* the instant a written date and time stand for
WrittenInstant(in) ==
    DateTime(in.year, in.md[1], in.md[2], WrittenHour(in), WrittenMinute(in), 0)

\* C23 as stated: a full date and time (YYYY年M月D日 <time> or
\* YYYY-MM-DD HH:MM) that resolves to an instant at or before the reference
\* instant, the instant exactly equal to it included, or whose year is more
\* than 5 years after the reference year, makes the parse fail; otherwise the
\* result is a once schedule at exactly that date and time.
C23_AtOrBeforeNowFails ==
    (Parsed({"kanji_date_time", "iso_date_time"}) /\ WrittenExists(calc.in))
    => calc.result =
         IF \/ calc.in.year > calc.now.year + 5
            \/ Seconds(WrittenInstant(calc.in)) <= Seconds(calc.now)
         THEN None
         ELSE OnceResult(WrittenInstant(calc.in))

\* C23, amended: a full date and time makes the parse fail when its year is
\* more than 5 years after the reference year, when it names no date or time
\* that exists, or when it resolves to an instant strictly before the instant
\* is_past_time reads from the clock, which is the reference instant or later;
\* otherwise, the instant exactly equal to that reading included, the result
\* is a once schedule at exactly that date and time.
C23_StrictlyBeforeSecondReadingFails ==
    Parsed({"kanji_date_time", "iso_date_time"})
    => calc.result =
         IF \/ calc.in.year > calc.now.year + 5
            \/ ~WrittenExists(calc.in)
            \/ Seconds(WrittenInstant(calc.in)) < Seconds(calc.now2)
         THEN None
         ELSE OnceResult(WrittenInstant(calc.in))

\* 2025-01-29 10:30 asked at 2025-01-29 10:30:00, the clock reading the same
\* instant again, is accepted
C23_Witness ==
    /\ Parsed({"iso_date_time"})
    /\ calc.in.year = 2025 /\ calc.in.md = <<1, 29>> /\ calc.in.hm = <<10, 30>>
    /\ calc.now = DateTime(2025, 1, 29, 10, 30, 0)
    /\ calc.now2 = calc.now
    /\ calc.result = OnceResult(DateTime(2025, 1, 29, 10, 30, 0))

\* 09:00 on the written month and day in a year
NineOClock(year, md) == DateTime(year, md[1], md[2], 9, 0, 0)

\* the year a date written without one is put in: the reference year, and the
\* next one when 09:00 of the date is not after the reference instant
YearMeant(md, now) ==
    IF Seconds(NineOClock(now.year, md)) > Seconds(now) THEN now.year ELSE now.year + 1

Shapes(text) ==
    <<IsSome(MatchMinutesLater(text)), IsSome(MatchHoursLater(text)),
      IsSome(MatchDaysLaterAt(text)), IsSome(MatchDaysLater(text)),
      IsSome(MatchWeekPhrase(text, KanjiEvery)), IsSome(MatchEveryMonth(text)),
      IsSome(MatchWeekPhrase(text, KanjiCome)),
      IsSome(MatchDayWord(text, DayAfterTomorrowWord)),
      IsSome(MatchDayWord(text, TomorrowWord)), IsSome(MatchDayWord(text, TodayWord)),
      \/ IsSome(MatchMarkedTime(text, Go))
      \/ IsSome(MatchMarkedTime(text, KanjiBefore))
      \/ IsSome(MatchPlainTime(text)),
      IsSome(MatchIsoDateOnly(text)), IsSome(MatchMonthDay(text, "/", FALSE)),
      IsSome(MatchMonthDay(text, KanjiMonth, TRUE)), IsSome(MatchKanjiDateOnly(text)),
      IsSome(MatchKanjiDateTime(text)), IsSome(MatchIsoDateTime(text))>>

\* the kinds of input in the order of the patterns meant for them
KindOrder ==
    <<"minutes", "hours", "days_at", "days", "every_week", "every_month", "next_week",
      "day_after_tomorrow", "tomorrow", "today", "time", "iso_date", "slash_date",
      "month_day_date", "kanji_date", "kanji_date_time", "iso_date_time">>

\* the first position of flags that holds TRUE; 0 when there is none
FirstTrue(flags) ==
    LET matching == {n \in 1..Len(flags) : flags[n]} IN
    IF matching = {} THEN 0 ELSE CHOOSE n \in matching : \A m \in matching : n <= m

\* the first pattern whose shape the text has; 0 when it has none
FirstShape(text) == CHOOSE n \in {FirstTrue(flags) : flags \in {Shapes(text)}} : TRUE

\* what is written is out of the range its pattern accepts
OutOfRange(in) ==
    \/ in.kind = "minutes" /\ in.n \notin 1..1440
    \/ in.kind = "hours" /\ in.n \notin 1..168
    \/ in.kind \in {"days", "days_at"} /\ in.n \notin 1..365
    \/ in.kind = "every_month" /\ in.day \notin 1..31
    \/ "time" \in DOMAIN in /\ ~TimeReadable(in)
    \/ "md" \in DOMAIN in /\ in.md[1] \notin 1..12
    \/ in.kind = "other"

\* C25: the parse is decided by the first pattern, in the fixed order, whose
\* shape the text has: when that pattern's validation fails the result is the
\* parse failure, whatever a later pattern would make of the text, and the
\* failure is None, never a guessed or default schedule.
C25_FirstShapeDecides ==
    calc.fn = "parse_natural_time"
    => \E first \in {FirstShape(calc.text)} :
       \E out \in {IF first = 0 THEN NoMatch
                   ELSE Recognizers(calc.text, calc.now, calc.now2)[first]} :
         /\ calc.in.kind # "other" => first # 0 /\ KindOrder[first] = calc.in.kind
         /\ calc.in.kind = "other" => first = 0
         /\ calc.result = IF IsSome(out) THEN out ELSE None
         /\ OutOfRange(calc.in) => calc.result = None

\* 0時間後 is refused as a number of hours, though the pattern for a time of
\* day alone would read 0時
C25_Witness ==
    /\ Parsed({"hours"})
    /\ calc.in.n = 0
    /\ IsSome(TimeOnly(calc.text, calc.now))
    /\ calc.result = None

-----------------------------------------------------------------------------
(* properties of the scheduler over its cycles *)

\* the occurrences a sweep notified with success, as <<id, next_run_at>>
Delivered(s) ==
    {<<s.calls[k].id, (CHOOSE r \in Range(s.input) : r.id = s.calls[k].id).next_run_at>> :
        k \in {j \in 1..Len(s.calls) : s.calls[j].success}}

\* C28: over any sequence of cycles, those whose save fails or whose sweep
\* aborts after a notification included, the notifier succeeds at most once
\* for a once reminder and at most once for an occurrence (a next_run_at) of
\* a weekly or monthly one: no sweep delivers what the sweep before it
\* delivered.
C28_DeliveredAtMostOnce ==
    [][sweep' # sweep => Delivered(sweep) \cap Delivered(sweep') = {}]_vars

\* the ids of a list of reminders, in its order
IdsOf(list) == [i \in 1..Len(list) |-> list[i].id]

\* the position of an id in the input of the sweep
InputPosition(id) == CHOOSE i \in 1..Len(sweep.input) : sweep.input[i].id = id

\* C29: when process_due_reminders returns, every reminder of its input (ids
\* distinct) is in exactly one of the active list and the archived list, none
\* dropped and none twice; the active list keeps the input's relative order;
\* every archived reminder has status done; and every reminder that was
\* pending in the input and is in the active list is still pending.
C29_SweepPartitionsItsInput ==
    (sweep # NoSweep /\ ~sweep.raised)
    => /\ Len(sweep.updated) + Len(sweep.completed) = Len(sweep.input)
       /\ \A r \in SweepInput :
             Cardinality({i \in 1..Len(sweep.updated) : sweep.updated[i].id = r.id})
             + Cardinality({i \in 1..Len(sweep.completed) : sweep.completed[i].id = r.id})
             = 1
       /\ \A i, j \in 1..Len(sweep.updated) :
             i < j => InputPosition(sweep.updated[i].id) < InputPosition(sweep.updated[j].id)
       /\ \A c \in Range(sweep.completed) : StatusOf(c) = "done"
       /\ \A r \in SweepInput :
             (StatusOf(r) = "pending" /\ InActive(r.id)) => StatusOf(ActiveOf(r.id)) = "pending"

\* a sweep of two reminders that archives the first, notified, and keeps the
\* second, still pending
C29_Witness ==
    /\ ~sweep.raised
    /\ IdsOf(sweep.input) = <<"once", "weekly">>
    /\ IdsOf(sweep.completed) = <<"once">>
    /\ IdsOf(sweep.updated) = <<"weekly">>
    /\ Len(sweep.calls) = 2
    /\ StatusOf(sweep.updated[1]) = "pending"

\* the weekly reminders of the pool as create_reminder_object builds them
CreatedWeeklies ==
    {create_reminder_object("weekly", "U1", "weekly", WeeklySchedule(4, <<9, 0>>),
                            StartTime).val,
     create_reminder_object("weeklyToday", "U1", "weeklyToday",
                            WeeklySchedule(1, <<8, 30>>), StartTime).val}

\* r is one of them, pending, whatever its next_run_at has become
IsCreatedWeekly(r) ==
    /\ Has(r, "next_run_at")
    /\ \E c \in CreatedWeeklies : [r EXCEPT !.next_run_at = c.next_run_at] = c

\* next_run_at is on the weekday of the schedule at its HH:MM:00
OnSchedule(r) ==
    /\ IsSome(Fromisoformat(r.next_run_at))
    /\ WeekdayOf(Fromisoformat(r.next_run_at).val) = r.schedule.weekday
    /\ Fromisoformat(r.next_run_at).val.hour = r.schedule.time[1]
    /\ Fromisoformat(r.next_run_at).val.minute = r.schedule.time[2]
    /\ Fromisoformat(r.next_run_at).val.second = 0

\* C30: in every state reached from a weekly reminder built by
\* create_reminder_object by running cycles, the pending weekly reminder's
\* next_run_at is on the schedule's weekday at HH:MM:00, in the file and in
\* the lists of the cycle, and a notification that succeeds makes its
\* next_run_at strictly later.
C30_WeeklyStaysOnSchedule ==
    /\ \A r \in Range(reminders_file) \cup Range(loaded) \cup Range(sweep.updated) :
          IsCreatedWeekly(r) => OnSchedule(r)
    /\ \A r \in SweepInput :
          (/\ IsCreatedWeekly(r)
           /\ \E k \in 1..Len(sweep.calls) :
                 sweep.calls[k].id = r.id /\ sweep.calls[k].success)
          => /\ InActive(r.id)
             /\ Seconds(Fromisoformat(ActiveOf(r.id).next_run_at).val)
                  > Seconds(Fromisoformat(r.next_run_at).val)

\* the reminder created on Tuesday 08:59 for Tuesdays 08:30, notified on
\* 2025-02-04, is in the file for 2025-02-11 08:30:00
C30_Witness ==
    /\ pc = "ended"
    /\ \E k \in 1..Len(sweep.calls) :
          sweep.calls[k].id = "weeklyToday" /\ sweep.calls[k].success
    /\ \E r \in Range(sweep.input) :
          r.id = "weeklyToday" /\ r.next_run_at = <<2025, 2, 4, 8, 30, 0>>
    /\ \E r \in Range(reminders_file) :
          IsCreatedWeekly(r) /\ r.next_run_at = <<2025, 2, 11, 8, 30, 0>>

-----------------------------------------------------------------------------
(* the reminder built from a parsed schedule (checked under SpecNatural) *)

\* the reminder of the call was built at the instant the parser read
Created == calc.fn = "create_reminder_object" /\ calc.now2 = calc.now

\* C31: every reminder create_reminder_object builds from a schedule that
\* parse_natural_time returned at the same instant has a next_run_at, and it
\* is strictly later than its created_at, whatever form was written.
C31_FirstRunIsAfterCreation ==
    Created
    => /\ IsSome(calc.reminder)
       /\ Has(calc.reminder.val, "next_run_at")
       /\ IsSome(Fromisoformat(calc.reminder.val.next_run_at))
       /\ Seconds(Fromisoformat(calc.reminder.val.next_run_at).val)
            > Seconds(Fromisoformat(calc.reminder.val.created_at).val)

-----------------------------------------------------------------------------
(* send.py: main, the loop of cycle and sleep. A sleep takes exactly the     *)
(* time asked for, a cycle takes none, the notifier answers success and the  *)
(* file is read and written without failure; the bot adds reminders while    *)
(* the scheduler sleeps. The clock has half seconds: main.millisecond.       *)

\* the largest number of reminders in the file when the loop starts
LoopMaxReminders == 2

\* the calls of add_reminder_to_file the bot makes
LoopMaxAdds == 1

\* the seconds after LoopStart during which the loop starts a sleep
LoopSeconds == 120

LoopStart == DateTime(2025, 1, 31, 8, 59, 20)

\* the ISO string of the instant off seconds after Friday 2025-01-31 09:00:00
LoopDue(off) == Isoformat(AddSeconds(DateTime(2025, 1, 31, 9, 0, 0), off))

\* the reminders of the file at start: pending, their next_run_at ahead
LoopPool ==
    { Reminder("once", OnceSchedule(T0), T0, "pending"),
      Reminder("onceLater", OnceSchedule(LoopDue(45)), LoopDue(45), "pending"),
      Reminder("weekly", WeeklySchedule(4, <<9, 0>>), T0, "pending"),
      Reminder("monthly31", MonthlySchedule(31, <<9, 0>>), T0, "pending") }

\* lists of at most LoopMaxReminders pool entries with distinct ids
LoopLists ==
    {l \in UNION {[1..n -> LoopPool] : n \in 0..LoopMaxReminders} :
        \A i, j \in 1..Len(l) : i # j => l[i].id # l[j].id}

\* the ids uuid4 gives the reminders the bot adds
LoopNewIds == <<"new1", "new2", "new3">>

\* seconds from the bot's call to the run_at of the reminder it adds
LoopAddOffsets == {1, 60}

\* main of the loop: what run_scheduler_cycle and main hold, the fraction of
\* the clock, the end of the running sleep in half seconds from the origin,
\* and the number of reminders the bot has added
LoopMain ==
    [error |-> FALSE, load_failed |-> FALSE, before |-> <<>>, sleep_duration |-> None,
     millisecond |-> 0, wake |-> 0, added |-> 0]

\* get_current_time() with its fraction of a second
LoopNow == ("millisecond" :> main.millisecond) @@ get_current_time

\* the clock in half seconds from the origin
LoopHalf == 2 * clock + (main.millisecond \div 500)

InitLoop ==
    /\ clock = Seconds(LoopStart)
    /\ reminders_file \in LoopLists
    /\ archive_file = <<>>
    /\ pc = "idle"
    /\ loaded = <<>>
    /\ sweep = NoSweep
    /\ fs = NoFile
    /\ main = LoopMain
    /\ calc = CalcIdle(OnceSchedule(T0), StartTime)

\* run_scheduler_cycle(): load, process_due_reminders with a notifier that
\* succeeds, save; an exception ends the cycle before anything is written
RunSchedulerCycle ==
    /\ pc = "idle"
    /\ \E result \in {process_due_reminders(reminders_file, LoopNow,
                                            [i \in 1..Len(reminders_file) |-> TRUE])} :
          /\ sweep' = result
          /\ IF result.raised
             THEN /\ main' = [main EXCEPT !.error = TRUE]
                  /\ UNCHANGED <<reminders_file, archive_file>>
             ELSE /\ main' = [main EXCEPT !.error = FALSE]
                  /\ reminders_file' = result.updated
                  /\ archive_file' =
                        IF result.completed = <<>> THEN archive_file
                        ELSE append_to_archive(archive_file, result.completed, LoopNow)
    /\ pc' = "ended"
    /\ UNCHANGED <<clock, loaded, calc, fs>>

\* main after the cycle: load_reminders_from_file, calculate_sleep_duration,
\* and time.sleep(sleep_duration) begins
LoopSleep ==
    /\ pc = "ended"
    /\ clock < Seconds(LoopStart) + LoopSeconds
    /\ \E d \in {calculate_sleep_duration(reminders_file, get_current_time,
                                          main.millisecond)} :
          main' = [main EXCEPT !.sleep_duration = Some(d),
                               !.wake = LoopHalf + (d \div 500)]
    /\ pc' = "sleeping"
    /\ UNCHANGED <<clock, reminders_file, archive_file, loaded, sweep, calc, fs>>

\* time.sleep returns, exactly sleep_duration after it began
LoopWake ==
    /\ pc = "sleeping"
    /\ clock' = main.wake \div 2
    /\ main' = [main EXCEPT !.millisecond = 500 * (main.wake % 2)]
    /\ pc' = "idle"
    /\ UNCHANGED <<reminders_file, archive_file, loaded, sweep, calc, fs>>

\* the bot, while the scheduler sleeps: at the instant at, one second after
\* the clock or one second before the sleep ends, add_reminder_to_file stores
\* a once reminder built by create_reminder_object whose run_at is ahead
BotAddsReminder ==
    /\ pc = "sleeping"
    /\ main.added < LoopMaxAdds
    /\ \E at \in {clock + 1, (main.wake \div 2) - 1}, off \in LoopAddOffsets :
          /\ at > clock
          /\ 2 * at < main.wake
          /\ clock' = at
          /\ main' = [main EXCEPT !.millisecond = 0, !.added = @ + 1]
          /\ reminders_file' =
                Append(reminders_file,
                       create_reminder_object(LoopNewIds[main.added + 1], "U2", "new",
                                              OnceSchedule(Isoformat(FromSeconds(at + off))),
                                              FromSeconds(at)).val)
    /\ UNCHANGED <<archive_file, pc, loaded, sweep, calc, fs>>

NextLoop == RunSchedulerCycle \/ LoopSleep \/ LoopWake \/ BotAddsReminder

SpecLoop == InitLoop /\ [][NextLoop]_vars

\* the reminders the last cycle found due: pending, next_run_at at or before
\* the instant of the sweep
DueInSweep == {r \in SweepInput : Resolvable(r) /\ Seconds(Fromisoformat(r.next_run_at).val) <= sweep.now}

\* seconds from r's next_run_at to the sweep, a fraction counted as a second
LateBy(r) ==
    sweep.now - Seconds(Fromisoformat(r.next_run_at).val)
    + (IF main.millisecond > 0 THEN 1 ELSE 0)

\* the notifier was called for r in the last sweep
NotifiedInSweep(r) == \E k \in 1..Len(sweep.calls) : sweep.calls[k].id = r.id

\* C32: in the loop of cycle and exact sleep, with a notifier that succeeds,
\* no failing read or write and cycles that take no time, every reminder a
\* cycle finds due (in the file from the start or added by the bot during a
\* sleep, its next_run_at ahead when it was added) is found at most 30 seconds
\* after its next_run_at and is notified in that cycle, so none is retired
\* without a notification.
C32_DueIsSweptWithinThirtySeconds ==
    (pc = "ended" /\ sweep # NoSweep)
    => \A r \in DueInSweep : LateBy(r) <= 30 /\ NotifiedInSweep(r)

-----------------------------------------------------------------------------
(* the two copies of calculate_initial_run_at (checked under SpecCalc) *)

\* C35: for every once, weekly and monthly schedule with valid fields and
\* every current time, receive.calculate_initial_run_at returns what
\* time_parser.calculate_initial_run_at returns for the same arguments, an
\* instant, and neither raises; also for a monthly day 29..31 that the current
\* or the following month lacks.
C35_BothCopiesAgree ==
    calc.fn = "receive.calculate_initial_run_at"
    => /\ IsSome(calc.result)
       /\ IsSome(calculate_initial_run_at(calc.schedule, calc.at))
       /\ calc.result = calculate_initial_run_at(calc.schedule, calc.at)

\* the months the search of calculate_initial_run_at has looked at after the
\* current one when it returns r: each iteration moves on by one month
MonthsExamined(r, now) == (r.year * 12 + r.month) - (now.year * 12 + now.month)

\* C36: for every monthly schedule with a day in 1..31 and a valid time, the
\* month search of time_parser.calculate_initial_run_at ends, having looked at
\* no more than two months after the current one (one for a day up to 28),
\* and returns an instant.
C36_MonthSearchEnds ==
    (calc.fn = "calculate_initial_run_at" /\ calc.schedule.type = "monthly")
    => /\ IsSome(calc.result)
       /\ IsSome(Fromisoformat(calc.result.val))
       /\ MonthsExamined(Fromisoformat(calc.result.val).val, calc.at) \in 0..2
       /\ calc.schedule.day <= 28
            => MonthsExamined(Fromisoformat(calc.result.val).val, calc.at) <= 1

\* day 31 asked on 31 January after the time of day: February is passed over
\* and the search returns 31 March, the second month it looked at
C36_Witness ==
    /\ calc.fn = "calculate_initial_run_at"
    /\ calc.schedule = MonthlySchedule(31, <<9, 30>>)
    /\ calc.at = DateTime(2025, 1, 31, 9, 30, 0)
    /\ calc.result = Some(<<2025, 3, 31, 9, 30, 0>>)
    /\ MonthsExamined(Fromisoformat(calc.result.val).val, calc.at) = 2

-----------------------------------------------------------------------------
(* helpers.py: delete_reminder_by_id and delete_all_reminders, called one    *)
(* after the other on a file that is read and written without failure       *)

\* r.get("id") == reminder_id
HasId(r, reminder_id) == Has(r, "id") /\ r.id = reminder_id

\* r.get("user_id") == user_id and r.get("status") == "pending"
IsPendingOf(r, user_id) ==
    Has(r, "user_id") /\ r.user_id = user_id /\ StatusOf(r) = "pending"

\* what a call leaves: the value returned and the list handed to
\* save_reminders_to_file, None when it is not called
Deletion(result, saved) == [result |-> result, saved |-> saved]

\* delete_reminder_by_id(reminder_id) on the list load_reminders_from_file gave
delete_reminder_by_id(reminders, reminder_id) ==
    LET kept == SelectSeq(reminders, LAMBDA r : ~HasId(r, reminder_id)) IN
    IF Len(kept) < Len(reminders) THEN Deletion(TRUE, Some(kept))
    ELSE Deletion(FALSE, None)

\* a variant that deletes the user's reminders whatever their status
delete_all_remindersAnyStatus(reminders, user_id) ==
    LET kept == SelectSeq(reminders,
                          LAMBDA r : ~(Has(r, "user_id") /\ r.user_id = user_id))
        deleted_count == Len(reminders) - Len(kept)
    IN  IF deleted_count > 0 THEN Deletion(deleted_count, Some(kept))
        ELSE Deletion(deleted_count, None)

\* delete_all_reminders(user_id) on the list load_reminders_from_file gave
delete_all_reminders(reminders, user_id) ==
    LET kept == SelectSeq(reminders, LAMBDA r : ~IsPendingOf(r, user_id))
        deleted_count == Len(reminders) - Len(kept)
    IN  IF deleted_count > 0 THEN Deletion(deleted_count, Some(kept))
        ELSE Deletion(deleted_count, None)

\* the longest file the calls start from
DeleteMaxReminders == 3

\* the calls made one after the other
DeleteMaxCalls == 2

\* a stored reminder of user_id
Stored(id, user_id, status) ==
    [id |-> id, user_id |-> user_id, text |-> id, schedule |-> OnceSchedule(T0),
     next_run_at |-> T0, created_at |-> Isoformat(StartTime), status |-> status]

\* what the file may hold: pending and done reminders of two users, one
\* entry without id and user_id, one without status
DeletePool ==
    { Stored("a", "U1", "pending"), Stored("b", "U1", "pending"),
      Stored("c", "U1", "done"), Stored("d", "U2", "pending"),
      Stored("e", "U2", "done"),
      [text |-> "bare", status |-> "pending"],
      [id |-> "f", user_id |-> "U1", text |-> "f"] }

\* lists of at most DeleteMaxReminders pool entries, an entry at most once
DeleteLists ==
    {l \in UNION {[1..n -> DeletePool] : n \in 0..DeleteMaxReminders} :
        \A i, j \in 1..Len(l) : i # j => l[i] # l[j]}

DeleteIds == {"a", "c", "d", "f", "zz"}

DeleteUsers == {"U1", "U2", "U3"}

\* no call made yet; before is the file as the last call found it
DeleteIdle ==
    [fn |-> "idle", arg |-> "", result |-> None, before |-> <<>>, written |-> FALSE,
     calls |-> 0]

InitDelete ==
    /\ clock = 0
    /\ reminders_file \in DeleteLists
    /\ archive_file = <<>>
    /\ pc = "idle"
    /\ loaded = <<>>
    /\ sweep = NoSweep
    /\ fs = NoFile
    /\ main = NoMain
    /\ calc = DeleteIdle

\* the call: load_reminders_from_file, the filter, and save_reminders_to_file
\* when something was filtered out
Deleted(fn, arg, deletion) ==
    /\ calc' = [fn |-> fn, arg |-> arg, result |-> Some(deletion.result),
                before |-> reminders_file, written |-> IsSome(deletion.saved),
                calls |-> calc.calls + 1]
    /\ reminders_file' = IF IsSome(deletion.saved) THEN deletion.saved.val
                         ELSE reminders_file
    /\ UNCHANGED <<clock, archive_file, pc, loaded, sweep, fs, main>>

CallDeleteReminderById ==
    /\ calc.calls < DeleteMaxCalls
    /\ \E reminder_id \in DeleteIds :
          Deleted("delete_reminder_by_id", reminder_id,
                  delete_reminder_by_id(reminders_file, reminder_id))

CallDeleteAllReminders ==
    /\ calc.calls < DeleteMaxCalls
    /\ \E user_id \in DeleteUsers :
          Deleted("delete_all_reminders", user_id,
                  delete_all_reminders(reminders_file, user_id))

NextDelete == CallDeleteReminderById \/ CallDeleteAllReminders

SpecDelete == InitDelete /\ [][NextDelete]_vars

\* the positions of calc.before the last call had to remove
Doomed ==
    {i \in 1..Len(calc.before) :
        IF calc.fn = "delete_all_reminders"
        THEN /\ Has(calc.before[i], "user_id") /\ calc.before[i].user_id = calc.arg
             /\ Has(calc.before[i], "status") /\ calc.before[i].status = "pending"
        ELSE Has(calc.before[i], "id") /\ calc.before[i].id = calc.arg}

\* every other entry of calc.before is in the file, moved up by the number of
\* removed entries before it, and the file holds nothing else
OthersKeptInOrder ==
    /\ Len(reminders_file) = Len(calc.before) - Cardinality(Doomed)
    /\ \A i \in (1..Len(calc.before)) \ Doomed :
          reminders_file[i - Cardinality({j \in Doomed : j < i})] = calc.before[i]

\* C37: delete_all_reminders(user) removes from the file exactly the pending
\* reminders of that user and returns their number; delete_reminder_by_id
\* returns true exactly when a reminder with that id was in the file and then
\* none with that id is left; every other reminder stays, unchanged and in
\* order; and when the result is false or 0 the file is not written.
C37_DeletesExactlyWhatIsAsked ==
    calc.fn \in {"delete_all_reminders", "delete_reminder_by_id"}
    => /\ OthersKeptInOrder
       /\ calc.fn = "delete_all_reminders"
            => /\ calc.result = Some(Cardinality(Doomed))
               /\ calc.written <=> Cardinality(Doomed) > 0
       /\ calc.fn = "delete_reminder_by_id"
            => /\ calc.result = Some(Doomed # {})
               /\ \A r \in Range(reminders_file) : ~(Has(r, "id") /\ r.id = calc.arg)
               /\ calc.written <=> Doomed # {}
       /\ ~calc.written => reminders_file = calc.before

\* delete_all_reminders("U1") on a file holding a pending and a done reminder
\* of U1 around a pending one of U2: one is removed, the two others stay
C37_Witness ==
    /\ calc.fn = "delete_all_reminders"
    /\ calc.arg = "U1"
    /\ calc.before = <<Stored("c", "U1", "done"), Stored("a", "U1", "pending"),
                       Stored("d", "U2", "pending")>>
    /\ calc.result = Some(1)
    /\ calc.written
    /\ reminders_file = <<Stored("c", "U1", "done"), Stored("d", "U2", "pending")>>

-----------------------------------------------------------------------------
(* receive.py: handle_text_message and the sessions it keeps. The messages   *)
(* are handled one at a time; main.user_sessions is the dict user_sessions   *)
(* of the webhook process and main.added counts the reminders it built.      *)

MAX_FAIL_COUNT == 5

UpperLetters ==
    <<"A", "B", "C", "D", "E", "F", "G", "H", "I", "J", "K", "L", "M",
      "N", "O", "P", "Q", "R", "S", "T", "U", "V", "W", "X", "Y", "Z">>

LowerLetters ==
    <<"a", "b", "c", "d", "e", "f", "g", "h", "i", "j", "k", "l", "m",
      "n", "o", "p", "q", "r", "s", "t", "u", "v", "w", "x", "y", "z">>

\* str.lower() on one character: the kana and kanji of the texts have no case
LowerChar(c) ==
    IF \E n \in 1..26 : UpperLetters[n] = c
    THEN LowerLetters[CHOOSE n \in 1..26 : UpperLetters[n] = c]
    ELSE c

\* received_text.lower()
Lower(text) == [i \in 1..Len(text) |-> LowerChar(text[i])]

\* the list the lowered text is looked up in: two Japanese words and "cancel"
CancelWords ==
    { <<"U+30AD", "U+30E3", "U+30F3", "U+30BB", "U+30EB">>,
      <<"c", "a", "n", "c", "e", "l">>,
      <<"U+3084", "U+3081", "U+308B">> }

\* user_sessions[user_id] = {...}
start_waiting_for_time_session(sessions, user_id, message) ==
    [u \in DOMAIN sessions \cup {user_id} |->
        IF u = user_id
        THEN [state |-> "waiting_for_time", message |-> message, fail_count |-> 0]
        ELSE sessions[u]]

\* the dict after increment_fail_count(user_id)
increment_fail_count(sessions, user_id) ==
    IF user_id \in DOMAIN sessions
    THEN [sessions EXCEPT ![user_id].fail_count = @ + 1]
    ELSE sessions

\* the dict after clear_user_session(user_id)
clear_user_session(sessions, user_id) ==
    [u \in DOMAIN sessions \ {user_id} |-> sessions[u]]

\* receive.py's add_reminder_to_file: the file after it, by what happens to
\* save_reminders_to_file. open() failing leaves the file alone; a write
\* failing after open(..., 'w') truncated it leaves bytes that load as [].
AddedToFile(file, reminder, save) ==
    IF save = "ok" THEN Append(file, reminder)
    ELSE IF save = "open_failed" THEN file
    ELSE <<>>

\* what handling one message leaves: the sessions, the reminder handed to
\* add_reminder_to_file (None when it is not called), the branch taken, what
\* parse_natural_time gave (NoMatch when it is not called), and whether an
\* exception left the handler before the reply
Handling(sessions, reminder, branch, parse_result, raised) ==
    [user_sessions |-> sessions, reminder |-> reminder, branch |-> branch,
     parse_result |-> parse_result, raised |-> raised]

\* parse_result is a schedule: create_reminder_object, outside the try, then
\* add_reminder_to_file inside it, so that the session is cleared whatever
\* becomes of the save
TimeAccepted(sessions, user_id, parse_result, reminder) ==
    IF IsRaise(reminder) THEN Handling(sessions, None, "time", parse_result, TRUE)
    ELSE Handling(clear_user_session(sessions, user_id), reminder, "time",
                  parse_result, FALSE)

\* parse_result is None: the failure is counted and the session cleared at
\* MAX_FAIL_COUNT
TimeRefused(sessions, user_id, parse_result) ==
    LET counted == increment_fail_count(sessions, user_id) IN
    Handling(IF counted[user_id].fail_count >= MAX_FAIL_COUNT
             THEN clear_user_session(counted, user_id) ELSE counted,
             None, "time", parse_result, FALSE)

\* the handler once parse_natural_time(received_text) has returned or raised
TimeParsed(sessions, user_id, now, id, parse_result) ==
    IF IsRaise(parse_result) THEN Handling(sessions, None, "time", parse_result, TRUE)
    ELSE IF IsSome(parse_result)
    THEN TimeAccepted(sessions, user_id, parse_result,
                      receive_create_reminder_object(
                          id, user_id, sessions[user_id].message,
                          parse_result.val[1], now))
    ELSE TimeRefused(sessions, user_id, parse_result)

\* the branch of handle_text_message that reads the time of a waiting session
HandleTimeInput(sessions, user_id, received_text, now, id) ==
    CHOOSE h \in {TimeParsed(sessions, user_id, now, id, parse_result) :
                    parse_result \in {receive_parse_natural_time(received_text, now, now)}} :
        TRUE

\* handle_text_message up to the reply
handle_text_message(sessions, user_id, text, now, id) ==
    LET received_text == Strip(text) IN
    IF user_id \in DOMAIN sessions /\ sessions[user_id].state = "waiting_for_time"
    THEN IF Lower(received_text) \in CancelWords
         THEN Handling(clear_user_session(sessions, user_id), None, "cancel",
                       NoMatch, FALSE)
         ELSE HandleTimeInput(sessions, user_id, received_text, now, id)
    ELSE Handling(start_waiting_for_time_session(sessions, user_id, received_text),
                  None, "start", NoMatch, FALSE)

\* the reminders the webhook builds at most
WebMaxReminders == 1

\* the hours the clock moves on at most
WebMaxHours == 1

WebStart == DateTime(2025, 1, 31, 8, 30, 0)

WebUsers == {"U1", "U2"}

\* the texts sent: a message with blanks around it, a cancel word with a
\* capital, a time some minutes ahead, the 31st of every month at 09:00,
\* and 25:00
WebTexts ==
    { <<" ", "m", "i", "l", "k", " ">>,
      <<"C", "a", "n", "c", "e", "l">>,
      <<"1", "0", Fun, Go>>,
      <<KanjiEvery, KanjiMonth, "3", "1", KanjiDay, " ", "9", ":", "0", "0">>,
      <<"2", "5", ":", "0", "0">> }

SaveOutcomes == {"ok", "open_failed", "write_failed"}

\* no message handled since the clock moved
WebIdle == [fn |-> "idle"]

InitWeb ==
    /\ clock = Seconds(WebStart)
    /\ reminders_file = <<Stored("d", "U2", "pending")>>
    /\ archive_file = <<>>
    /\ pc = "idle"
    /\ loaded = <<>>
    /\ sweep = NoSweep
    /\ fs = NoFile
    /\ main = [user_sessions |-> <<>>, added |-> 0]
    /\ calc = WebIdle

\* one text message of a user handled from its arrival to the reply
HandleTextMessage ==
    /\ main.added < WebMaxReminders
    /\ \E user_id \in WebUsers, text \in WebTexts :
         \E h \in {handle_text_message(main.user_sessions, user_id, text,
                                       get_current_time, <<"id", main.added + 1>>)} :
            \E save \in IF IsSome(h.reminder) THEN SaveOutcomes ELSE {"none"} :
               /\ main' = [user_sessions |-> h.user_sessions,
                           added |-> IF IsSome(h.reminder) THEN main.added + 1
                                     ELSE main.added]
               /\ reminders_file' = IF IsSome(h.reminder)
                                    THEN AddedToFile(reminders_file, h.reminder.val, save)
                                    ELSE reminders_file
               /\ calc' = [fn |-> "handle_text_message", user_id |-> user_id,
                           text |-> text, branch |-> h.branch,
                           parse_result |-> h.parse_result, raised |-> h.raised,
                           save |-> save]
    /\ UNCHANGED <<clock, archive_file, pc, loaded, sweep, fs>>

\* an hour goes by with no message
WebTick ==
    /\ clock < Seconds(WebStart) + 3600 * WebMaxHours
    /\ clock' = clock + 3600
    /\ calc' = WebIdle
    /\ UNCHANGED <<reminders_file, archive_file, pc, loaded, sweep, fs, main>>

NextWeb == HandleTextMessage \/ WebTick

SpecWeb == InitWeb /\ [][NextWeb]_vars

\* the dict user_sessions of the webhook process
user_sessions == main.user_sessions

\* the step handles a message of user_id
Handles(user_id) == calc'.fn = "handle_text_message" /\ calc'.user_id = user_id

\* the message handled came to a waiting session, is no cancel word, and
\* parse_natural_time gave no schedule for it
UnparseableTimeInput == calc'.branch = "time" /\ ~IsSome(calc'.parse_result)

\* the message handled came to a waiting session, is no cancel word, and
\* parse_natural_time returned a schedule for it
ParseableTimeInput == calc'.branch = "time" /\ IsSome(calc'.parse_result)

\* C33: after each handled message every stored session has fail_count in
\* 0..MAX_FAIL_COUNT-1; a time input that cannot be parsed adds exactly one
\* to the sender's fail_count, and the fifth in a row clears the session
\* instead of storing 5; a session that starts has fail_count 0.
C33_FailCountCountsEveryUnparseableInput ==
    [][\A u \in WebUsers :
          /\ u \in DOMAIN user_sessions'
               => user_sessions'[u].fail_count \in 0..(MAX_FAIL_COUNT - 1)
          /\ Handles(u) /\ UnparseableTimeInput
               => IF user_sessions[u].fail_count = MAX_FAIL_COUNT - 1
                  THEN u \notin DOMAIN user_sessions'
                  ELSE /\ u \in DOMAIN user_sessions'
                       /\ user_sessions'[u].fail_count = user_sessions[u].fail_count + 1
          /\ Handles(u) /\ calc'.branch = "start"
               => u \in DOMAIN user_sessions' /\ user_sessions'[u].fail_count = 0
      ]_vars

\* the file gained exactly one reminder, pending, of user_id, with message
OneReminderAdded(user_id, message) ==
    /\ Len(reminders_file') = Len(reminders_file) + 1
    /\ SubSeq(reminders_file', 1, Len(reminders_file)) = reminders_file
    /\ reminders_file'[Len(reminders_file')].user_id = user_id
    /\ reminders_file'[Len(reminders_file')].text = message
    /\ reminders_file'[Len(reminders_file')].status = "pending"

\* C34: a message of a user without session starts a waiting_for_time
\* session holding the text and adds no reminder; in a waiting session a
\* cancel word clears the session and adds no reminder, a parseable time
\* clears the session and, unless the save fails, adds exactly one pending
\* reminder of that user with the stored message, and an unparseable time
\* adds no reminder and keeps the stored message; the sessions of the other
\* users stay as they are.
C34_RegistrationFollowsTheStateMachine ==
    [][\A u \in WebUsers :
          Handles(u)
          => /\ \A v \in WebUsers \ {u} :
                  /\ v \in DOMAIN user_sessions <=> v \in DOMAIN user_sessions'
                  /\ v \in DOMAIN user_sessions => user_sessions'[v] = user_sessions[v]
             /\ u \notin DOMAIN user_sessions
                  => /\ u \in DOMAIN user_sessions'
                     /\ user_sessions'[u].state = "waiting_for_time"
                     /\ user_sessions'[u].message = Strip(calc'.text)
                     /\ reminders_file' = reminders_file
             /\ u \in DOMAIN user_sessions /\ calc'.branch = "cancel"
                  => u \notin DOMAIN user_sessions' /\ reminders_file' = reminders_file
             /\ u \in DOMAIN user_sessions /\ ParseableTimeInput
                  => /\ u \notin DOMAIN user_sessions'
                     /\ calc'.save \notin {"open_failed", "write_failed"}
                          => OneReminderAdded(u, user_sessions[u].message)
             /\ u \in DOMAIN user_sessions /\ UnparseableTimeInput
                  => /\ reminders_file' = reminders_file
                     /\ u \in DOMAIN user_sessions'
                          => user_sessions'[u].message = user_sessions[u].message
      ]_vars

=============================================================================
